---- MODULE Spec2Model ----
(***************************************************************************)
(* The bill validation pipeline of the Smart Bill Verifier backend:        *)
(* ValidationService.validateBill (backend/services/ocrService.js) applied *)
(* to Receipts, on the shared singleton service instance.                  *)
(*                                                                         *)
(* Representation.  Currency amounts are integers counting thousandths of *)
(* a rupee (85.00 is 85000, the tolerance 0.01 is 10); comparisons of      *)
(* quotients are done by cross-multiplication, so the arithmetic is exact. *)
(* Instants are whole hours since 1970-01-01T00:00Z.  A string is the      *)
(* sequence of its characters.  A JavaScript exception is the field        *)
(* `thrown` of the threaded call state.                                    *)
(***************************************************************************)
EXTENDS Integers, Sequences, FiniteSets, TLC

VARIABLES
    this,          \* the singleton ValidationService instance (its fields)
    tz,            \* the process's time-zone offset from UTC, in hours
    lowDeduction,  \* what calculateConfidenceScore subtracts per low warning
    pc,            \* "idle", "returned" (a call returned), "repeated" (made again),
                   \* "shared" (another caller parsed), "parsed" (the caller did)
    path,          \* how the last call ended: "normal", "catch" or "raised"
    billData,      \* the Receipt object the caller handed to validateBill
    arg,           \* the value billData had when the call was made
    now,           \* the value new Date() returned during the call
    result,        \* the ValidationResult the last call on billData returned
    prevResult,    \* the result of the call before it on the same Receipt and time
    parser,        \* the singleton BillParser instance (its fields)
    rawText,       \* the value the caller handed to parseBillData
    parsed,        \* how the last parseBillData call on rawText ended
    simple,        \* what server.js's validateBill returned on the same Receipt
    ocr,           \* the singleton OCRService instance (its fields)
    workers,       \* the state of each worker Tesseract.createWorker was asked for
    calls          \* where each asynchronous call on the OCRService stands

\* the state of the validator and the parser
validatorVars ==
    <<this, tz, lowDeduction, pc, path, billData, arg, now, result, prevResult,
      parser, rawText, parsed, simple>>

\* the state of the OCR service
ocrVars == <<ocr, workers, calls>>

vars == <<validatorVars, ocrVars>>

----------------------------------------------------------------------------
(* Bounds of the model *)

MaxItems == 2
MaxLowDeduction == 2

----------------------------------------------------------------------------
(* Numbers, strings, dates *)

Abs(x) == IF x < 0 THEN -x ELSE x

Min(a, b) == IF a < b THEN a ELSE b

Max(a, b) == IF a > b THEN a ELSE b

\* statement; rest: the value of the statement is computed before the rest
\* of the block runs on it
AndThen(value, rest(_)) == CHOOSE out \in { rest(st) : st \in { value } } : TRUE

\* rupees and paise as an amount
Rs(r, p) == r * 1000 + p * 10

RECURSIVE SumSeq(_)
SumSeq(s) == IF s = << >> THEN 0 ELSE Head(s) + SumSeq(Tail(s))

\* obj.key is undefined when the object has no such property
Has(obj, key) == key \in DOMAIN obj

LowerChar(c) ==
    CASE c = "A" -> "a"
      [] c = "B" -> "b"
      [] c = "C" -> "c"
      [] c = "D" -> "d"
      [] c = "E" -> "e"
      [] c = "F" -> "f"
      [] c = "G" -> "g"
      [] c = "H" -> "h"
      [] c = "I" -> "i"
      [] c = "J" -> "j"
      [] c = "K" -> "k"
      [] c = "L" -> "l"
      [] c = "M" -> "m"
      [] c = "N" -> "n"
      [] c = "O" -> "o"
      [] c = "P" -> "p"
      [] c = "Q" -> "q"
      [] c = "R" -> "r"
      [] c = "S" -> "s"
      [] c = "T" -> "t"
      [] c = "U" -> "u"
      [] c = "V" -> "v"
      [] c = "W" -> "w"
      [] c = "X" -> "x"
      [] c = "Y" -> "y"
      [] c = "Z" -> "z"
      [] OTHER -> c

toLowerCase(s) == [i \in 1..Len(s) |-> LowerChar(s[i])]

RECURSIVE trimStart(_)
trimStart(s) ==
    IF s # << >> /\ Head(s) = " " THEN trimStart(Tail(s)) ELSE s

RECURSIVE trimEnd(_)
trimEnd(s) ==
    IF s # << >> /\ s[Len(s)] = " " THEN trimEnd(SubSeq(s, 1, Len(s) - 1)) ELSE s

trim(s) == trimEnd(trimStart(s))

includes(s, keyword) ==
    \E i \in 1..(Len(s) - Len(keyword) + 1) :
        SubSeq(s, i, i + Len(keyword) - 1) = keyword

\* Array.prototype.indexOf: the first index holding v (0 when there is none)
indexOf(s, v) ==
    IF \E i \in 1..Len(s) : s[i] = v
    THEN CHOOSE i \in 1..Len(s) : s[i] = v /\ \A j \in 1..(i - 1) : s[j] # v
    ELSE 0

\* A date string is empty, a date-only ISO string (read as UTC midnight), a
\* date-time string without zone (read as local time), or unparseable text.
\* new Date(string): its time value in hours, or an Invalid Date (nan).
DateParse(date, zone) ==
    CASE date.kind = "dateOnly" -> [nan |-> FALSE, time |-> date.day * 24]
      [] date.kind = "dateTime" ->
            [nan |-> FALSE, time |-> date.day * 24 + date.hour - zone]
      [] OTHER -> [nan |-> TRUE, time |-> 0]

\* Date.prototype.getDay() in the local zone: 0 is Sunday; 1970-01-01 was a
\* Thursday.  Only used on valid dates (NaN compares false with everything).
getDay(d, zone) == (((d.time + zone) \div 24) + 4) % 7

\* Date.prototype.getHours() in the local zone
getHours(d, zone) == (d.time + zone) % 24

----------------------------------------------------------------------------
(* Numbers: JavaScript numbers are IEEE 754 binary64 values.  The amounts of *)
(* a Receipt are decimals (thousandths of a rupee here); where a comparison  *)
(* of the code lies exactly on its tolerance, its outcome is that of the     *)
(* binary64 operations, computed below on unbounded naturals kept as         *)
(* little-endian sequences of 15-bit limbs.                                  *)

LimbBits == 15
Base == 2 ^ LimbBits

RECURSIVE BigNorm(_)
BigNorm(a) ==
    IF a # << >> /\ a[Len(a)] = 0 THEN BigNorm(SubSeq(a, 1, Len(a) - 1)) ELSE a

RECURSIVE BigFromInt(_)
BigFromInt(n) ==
    IF n = 0 THEN << >> ELSE << n % Base >> \o BigFromInt(n \div Base)

Limb(a, i) == IF i <= Len(a) THEN a[i] ELSE 0

RECURSIVE AddFrom(_, _, _, _)
AddFrom(a, b, i, carry) ==
    IF i > Len(a) /\ i > Len(b)
    THEN IF carry = 0 THEN << >> ELSE << carry >>
    ELSE << (Limb(a, i) + Limb(b, i) + carry) % Base >>
           \o AddFrom(a, b, i + 1, (Limb(a, i) + Limb(b, i) + carry) \div Base)

BigAdd(a, b) == BigNorm(AddFrom(a, b, 1, 0))

\* a - b for a >= b
RECURSIVE SubFrom(_, _, _, _)
SubFrom(a, b, i, borrow) ==
    IF i > Len(a) THEN << >>
    ELSE << (Limb(a, i) - Limb(b, i) - borrow) % Base >>
           \o SubFrom(a, b, i + 1,
                      IF Limb(a, i) - Limb(b, i) - borrow < 0 THEN 1 ELSE 0)

BigSub(a, b) == BigNorm(SubFrom(a, b, 1, 0))

\* -1, 0 or 1 as a < b, a = b or a > b, from limb i downwards
RECURSIVE CmpFrom(_, _, _)
CmpFrom(a, b, i) ==
    IF i = 0 THEN 0
    ELSE IF Limb(a, i) < Limb(b, i) THEN -1
    ELSE IF Limb(a, i) > Limb(b, i) THEN 1
    ELSE CmpFrom(a, b, i - 1)

BigCmp(a, b) == CmpFrom(a, b, Max(Len(a), Len(b)))

\* a * k for 0 <= k <= Base
RECURSIVE MulFrom(_, _, _, _)
MulFrom(a, k, i, carry) ==
    IF i > Len(a) THEN BigFromInt(carry)
    ELSE << (a[i] * k + carry) % Base >>
           \o MulFrom(a, k, i + 1, (a[i] * k + carry) \div Base)

BigMulSmall(a, k) == BigNorm(MulFrom(a, k, 1, 0))

BigShiftLimbs(a, n) == IF a = << >> THEN << >> ELSE [i \in 1..n |-> 0] \o a

RECURSIVE MulAcc(_, _, _)
MulAcc(a, b, i) ==
    IF i > Len(b) THEN << >>
    ELSE BigAdd(BigShiftLimbs(BigMulSmall(a, b[i]), i - 1), MulAcc(a, b, i + 1))

BigMul(a, b) == MulAcc(a, b, 1)

\* a * 2^n
BigShl(a, n) == BigShiftLimbs(BigMulSmall(a, 2 ^ (n % LimbBits)), n \div LimbBits)

\* floor(a / k) for 0 < k <= Base, from limb i downwards
RECURSIVE DivFrom(_, _, _, _)
DivFrom(a, k, i, rem) ==
    IF i = 0 THEN << >>
    ELSE DivFrom(a, k, i - 1, (rem * Base + a[i]) % k)
           \o << (rem * Base + a[i]) \div k >>

BigDivSmall(a, k) == BigNorm(DivFrom(a, k, Len(a), 0))

\* floor(a / 2^n)
BigShr(a, n) ==
    IF n \div LimbBits >= Len(a) THEN << >>
    ELSE BigDivSmall(SubSeq(a, n \div LimbBits + 1, Len(a)), 2 ^ (n % LimbBits))

\* the number of bits of a limb
BitLength(n) == CHOOSE k \in 0..LimbBits : 2 ^ k > n /\ (k = 0 \/ 2 ^ (k - 1) <= n)

BigBitLength(a) ==
    IF a = << >> THEN 0 ELSE LimbBits * (Len(a) - 1) + BitLength(a[Len(a)])

BigBit(a, i) == (Limb(a, i \div LimbBits + 1) \div 2 ^ (i % LimbBits)) % 2

BigIsOdd(a) == BigBit(a, 0) = 1

\* Long division by limbs (Knuth's algorithm D) for a divisor b whose top limb
\* is at least Base / 2 and r < Base * b.  The quotient limb is estimated from
\* the two top limbs of r and the top limb of b; the estimate is the limb or
\* exceeds it by at most 2.
LimbEstimate(r, b) ==
    Min(Base - 1,
        (Limb(r, Len(b) + 1) * Base + Limb(r, Len(b))) \div b[Len(b)])

DivLimbFrom(r, b, estimate) ==
    IF BigCmp(BigMulSmall(b, estimate), r) <= 0 THEN estimate
    ELSE IF BigCmp(BigMulSmall(b, estimate - 1), r) <= 0 THEN estimate - 1
    ELSE estimate - 2

\* floor(r / b)
DivLimb(r, b) == DivLimbFrom(r, b, LimbEstimate(r, b))

\* the limb d = floor(r / b), then the next n limbs of r / b, then 1 if a
\* remainder is left and 0 if not
RECURSIVE DivLimbsFrom(_, _, _, _), DivLimbs(_, _, _)
DivLimbsFrom(r, b, n, d) ==
    << d >> \o DivLimbs(BigSub(r, BigMulSmall(b, d)), b, n)

\* the next n limbs of r / b for r < b, then the remainder mark
DivLimbs(r, b, n) ==
    IF n = 0 THEN << IF r = << >> THEN 0 ELSE 1 >>
    ELSE DivLimbsFrom(BigShiftLimbs(r, 1), b, n - 1,
                      DivLimb(BigShiftLimbs(r, 1), b))

\* A finite double is neg, m, e with value (-1)^neg * m * 2^e, where m = 0 or
\* m has exactly Precision bits.
Precision == 53

\* q with k bits dropped, rounded up or not, is the mantissa: one bit too long
\* when the rounding carried into a new bit
Normalized(neg, q, e) ==
    IF BigBitLength(q) > Precision
    THEN [neg |-> neg, m |-> BigShr(q, 1), e |-> e + 1]
    ELSE [neg |-> neg, m |-> q, e |-> e]

\* c compares the dropped bits with half a unit of q: ties go to even
RoundedUp(neg, q, c, e) ==
    Normalized(neg,
               IF c > 0 \/ (c = 0 /\ BigIsOdd(q)) THEN BigAdd(q, << 1 >>) ELSE q,
               e)

DropBits(neg, m, q, k, e) ==
    RoundedUp(neg, q,
              BigCmp(BigMulSmall(BigSub(m, BigShl(q, k)), 2), BigShl(<< 1 >>, k)),
              e + k)

\* the double nearest to m * 2^e, ties to even
RoundBits(neg, m, k, e) ==
    IF k <= 0 THEN [neg |-> neg, m |-> BigShl(m, -k), e |-> e + k]
    ELSE AndThen(BigShr(m, k), LAMBDA q : DropBits(neg, m, q, k, e))

RoundToDouble(neg, m, e) ==
    IF m = << >> THEN [neg |-> FALSE, m |-> << >>, e |-> 0]
    ELSE RoundBits(neg, m, BigBitLength(m) - Precision, e)

DFromInt(n) == RoundToDouble(n < 0, BigFromInt(Abs(n)), 0)

DNeg(x) == IF x.m = << >> THEN x ELSE [x EXCEPT !.neg = ~x.neg]

DAbs(x) == [x EXCEPT !.neg = FALSE]

\* x + y for the mantissas xm and ym brought to the common exponent e
AddAligned(x, y, xm, ym, e) ==
    IF x.neg = y.neg THEN RoundToDouble(x.neg, BigAdd(xm, ym), e)
    ELSE IF BigCmp(xm, ym) >= 0 THEN RoundToDouble(x.neg, BigSub(xm, ym), e)
    ELSE RoundToDouble(y.neg, BigSub(ym, xm), e)

DAddAt(x, y, e) == AddAligned(x, y, BigShl(x.m, x.e - e), BigShl(y.m, y.e - e), e)

DAdd(x, y) ==
    IF x.m = << >> THEN y
    ELSE IF y.m = << >> THEN x
    ELSE DAddAt(x, y, IF x.e < y.e THEN x.e ELSE y.e)

DSub(x, y) == DAdd(x, DNeg(y))

DMul(x, y) ==
    IF x.m = << >> \/ y.m = << >> THEN [neg |-> FALSE, m |-> << >>, e |-> 0]
    ELSE RoundToDouble(x.neg # y.neg, BigMul(x.m, y.m), x.e + y.e)

\* x / y for y # 0.  Both mantissas are shifted to fill their limbs; their
\* quotient, below 2, is taken to one limb before the point, QuotientLimbs
\* limbs after it and a sticky bit.
QuotientLimbs == 4

\* the number with the limbs ds[1..n], most significant first
BigFromLimbs(ds, n) == BigNorm([j \in 1..n |-> ds[n + 1 - j]])

DivRound(neg, ds, e) ==
    RoundToDouble(neg,
                  BigAdd(BigMulSmall(BigFromLimbs(ds, QuotientLimbs + 1), 2),
                         BigFromInt(ds[QuotientLimbs + 2])),
                  e - QuotientLimbs * LimbBits - 1)

DivMantissas(neg, xm, ym, e) ==
    AndThen(DivLimbsFrom(xm, ym, QuotientLimbs, DivLimb(xm, ym)),
            LAMBDA ds : DivRound(neg, ds, e))

DivShifted(neg, x, y, shift) ==
    AndThen(BigShl(x.m, shift), LAMBDA xm :
    AndThen(BigShl(y.m, shift), LAMBDA ym :
    DivMantissas(neg, xm, ym, x.e - y.e)))

DDiv(x, y) ==
    IF x.m = << >> THEN x
    ELSE DivShifted(x.neg # y.neg, x, y,
                    LimbBits * Len(y.m) - BigBitLength(y.m))

Positive(d) == d.m # << >> /\ ~d.neg

DGt(x, y) == Positive(DSub(x, y))

\* the double a decimal literal of n thousandths denotes
DFromMills(n) == DDiv(DFromInt(n), DFromInt(1000))

\* Math.abs(x - y) > bound on doubles
DApart(x, y, bound) == DGt(DAbs(DSub(x, y)), bound)

\* items.reduce((sum, item) => sum + item.price, 0) over the first n prices
RECURSIVE DSum(_, _)
DSum(prices, n) ==
    IF n = 0 THEN DFromInt(0)
    ELSE AndThen(DSum(prices, n - 1), LAMBDA sum : DAdd(sum, DFromMills(prices[n])))

\* A comparison of the code whose two sides differ by gap in exact decimal
\* arithmetic: away from the bound the rounding of the doubles (below 10^-9
\* for the amounts of a Receipt) cannot change it; on the bound the outcome is
\* the one computed in binary64.
Exceeds(gap, bound, computed) == IF gap # bound THEN gap > bound ELSE computed

----------------------------------------------------------------------------
(* The service instance and the validation record *)

ValidationService ==
    [ indianTaxRates     |-> << 0, 5, 12, 18, 28 >>,
      maxReasonablePrice |-> Rs(10000, 0),
      maxBillAge         |-> 365 ]

Flags ==
    { "mathVerification", "taxValidation", "totalCheck",
      "dateValidation", "patternAnalysis" }

NewValidation ==
    [ isValid          |-> TRUE,
      errors           |-> << >>,
      warnings         |-> << >>,
      confidenceScore  |-> 100,
      algorithmResults |-> [f \in Flags |-> FALSE] ]

Issue(type, severity, field, message) ==
    [ type |-> type, severity |-> severity, field |-> field, message |-> message ]

\* The objects a check can reach: the service, the Receipt, the validation
\* record, and whether the check has thrown.
Call(self, bill) ==
    [ this |-> self, billData |-> bill, validation |-> NewValidation,
      thrown |-> FALSE, caught |-> FALSE ]

PushError(st, issue) ==
    [st EXCEPT !.validation.errors = Append(@, issue)]

PushWarning(st, issue) ==
    [st EXCEPT !.validation.warnings = Append(@, issue)]

SetFlag(st, flag) ==
    [st EXCEPT !.validation.algorithmResults[flag] = TRUE]

Throw(st) == [st EXCEPT !.thrown = TRUE]

\* try { body } catch { handler }: the pushes made before the throw stay
Catch(st, issue) == PushWarning([st EXCEPT !.thrown = FALSE], issue)

----------------------------------------------------------------------------
(* Algorithm 1: mathematical accuracy *)

tolerance == 10

\* JavaScript's Infinity (a quotient by 0); every amount is below it
Infinity == 10 ^ 9

ItemField(index) == << "items", index, "price" >>

\* Math.abs(item.quantity * item.unitPrice - item.price) > tolerance; the
\* product with an infinite unitPrice is Infinity, or NaN for quantity 0, and
\* NaN compares false
PriceOff(item) ==
    IF item.unitPrice = Infinity THEN item.quantity # 0
    ELSE Exceeds(Abs(item.quantity * item.unitPrice - item.price), tolerance,
                 DApart(DMul(DFromInt(item.quantity), DFromMills(item.unitPrice)),
                        DFromMills(item.price), DFromMills(tolerance)))

\* variant: the item check writes the recomputed price back into the item
RECURSIVE CheckItemPricesRepairing(_, _)
CheckItemPricesRepairing(st, index) ==
    IF index >= Len(st.billData.items) THEN st
    ELSE LET item == st.billData.items[index + 1]
             calculatedPrice == item.quantity * item.unitPrice
         IN  CheckItemPricesRepairing(
                 IF PriceOff(item)
                 THEN [PushError(st, Issue("MATH_ERROR", "medium",
                                           ItemField(index), "Item price mismatch"))
                          EXCEPT !.billData.items[index + 1].price = calculatedPrice]
                 ELSE st,
                 index + 1)

RECURSIVE CheckItemPrices(_, _)
CheckItemPrices(st, index) ==
    IF index >= Len(st.billData.items) THEN st
    ELSE LET item == st.billData.items[index + 1]
         IN  CheckItemPrices(
                 IF PriceOff(item)
                 THEN PushError(st, Issue("MATH_ERROR", "medium",
                                          ItemField(index), "Item price mismatch"))
                 ELSE st,
                 index + 1)

validateMathematicalAccuracy(st) ==
    LET b == st.billData
        body ==
            IF ~Has(b, "items") THEN Throw(st)   \* undefined.reduce
            ELSE LET calculatedSubtotal ==
                         SumSeq([i \in 1..Len(b.items) |-> b.items[i].price])
                     subtotalOff ==
                         Exceeds(Abs(calculatedSubtotal - b.subtotal), tolerance,
                                 DApart(DSum([i \in 1..Len(b.items) |-> b.items[i].price],
                                             Len(b.items)),
                                        DFromMills(b.subtotal), DFromMills(tolerance)))
                     s1 == IF subtotalOff
                           THEN PushError(st, Issue("MATH_ERROR", "high",
                                    << "subtotal" >>, "Subtotal mismatch"))
                           ELSE SetFlag(st, "mathVerification")
                 IN  CheckItemPrices(s1, 0)
    IN  IF body.thrown
        THEN Catch(body, Issue("MATH_ERROR", "medium", << >>,
                               "Unable to verify mathematical accuracy"))
        ELSE body

----------------------------------------------------------------------------
(* Algorithm 2: tax calculation *)

\* |rate - tax/subtotal*100| as a fraction over |subtotal| (subtotal # 0)
RateGap(rate, b) == Abs(rate * b.subtotal - 100 * b.tax)

\* (billData.tax / billData.subtotal) * 100
ActualTaxRate(b) ==
    DMul(DDiv(DFromMills(b.tax), DFromMills(b.subtotal)), DFromInt(100))

\* Math.abs(rate - actualRate) < Math.abs(closest - actualRate)
Nearer(rate, closest, b) ==
    IF RateGap(rate, b) # RateGap(closest, b)
    THEN RateGap(rate, b) < RateGap(closest, b)
    ELSE AndThen(ActualTaxRate(b), LAMBDA actualRate :
             DGt(DAbs(DSub(DFromInt(closest), actualRate)),
                 DAbs(DSub(DFromInt(rate), actualRate))))

\* (billData.subtotal * closestValidRate) / 100
ExpectedTax(b, closestValidRate) ==
    DDiv(DMul(DFromMills(b.subtotal), DFromInt(closestValidRate)), DFromInt(100))

\* Array.prototype.reduce without initial value, keeping the earlier rate on
\* a tie.  With subtotal = 0 the actual rate is +-Infinity, every distance is
\* Infinity and no rate is strictly closer than the first.
\* variant: the comparison of the reduce is reversed
RECURSIVE FarthestFrom(_, _, _)
FarthestFrom(rates, closest, b) ==
    IF rates = << >> THEN closest
    ELSE AndThen(IF b.subtotal # 0 /\ Nearer(closest, Head(rates), b)
                 THEN Head(rates) ELSE closest,
                 LAMBDA next : FarthestFrom(Tail(rates), next, b))

RECURSIVE ClosestFrom(_, _, _)
ClosestFrom(rates, closest, b) ==
    IF rates = << >> THEN closest
    ELSE AndThen(IF b.subtotal # 0 /\ Nearer(Head(rates), closest, b)
                 THEN Head(rates) ELSE closest,
                 LAMBDA next : ClosestFrom(Tail(rates), next, b))

findClosestTaxRate(self, b) ==
    ClosestFrom(Tail(self.indianTaxRates), Head(self.indianTaxRates), b)

\* variant: the amount check uses the rate tolerance 0.5 instead of 0.01
validateTaxCalculationsLoose(st) ==
    LET b == st.billData IN
    IF b.tax = 0
    THEN SetFlag(PushWarning(st, Issue("TAX_ERROR", "low", << >>,
                                       "No tax found on bill")),
                 "taxValidation")
    ELSE LET closestValidRate == findClosestTaxRate(st.this, b)
             rateOff == IF b.subtotal = 0 THEN TRUE
                        ELSE Exceeds(2 * RateGap(closestValidRate, b), Abs(b.subtotal),
                                     DApart(ActualTaxRate(b), DFromInt(closestValidRate),
                                            DFromMills(500)))
             s1 == IF rateOff
                   THEN PushError(st, Issue("TAX_ERROR", "medium", << "tax" >>,
                                            "Invalid tax rate"))
                   ELSE SetFlag(st, "taxValidation")
             amountOff ==
                 Exceeds(RateGap(closestValidRate, b), 100 * 500,
                         DApart(ExpectedTax(b, closestValidRate), DFromMills(b.tax),
                                DFromMills(500)))
         IN  IF amountOff
             THEN PushError(s1, Issue("TAX_ERROR", "medium", << "tax" >>,
                                      "Tax calculation error"))
             ELSE s1

validateTaxCalculations(st) ==
    LET b == st.billData IN
    IF b.tax = 0
    THEN SetFlag(PushWarning(st, Issue("TAX_ERROR", "low", << >>,
                                       "No tax found on bill")),
                 "taxValidation")
    ELSE LET closestValidRate == findClosestTaxRate(st.this, b)
             \* Math.abs(actualTaxRate - closestValidRate) > 0.5
             rateOff == IF b.subtotal = 0 THEN TRUE
                        ELSE Exceeds(2 * RateGap(closestValidRate, b), Abs(b.subtotal),
                                     DApart(ActualTaxRate(b), DFromInt(closestValidRate),
                                            DFromMills(500)))
             s1 == IF rateOff
                   THEN PushError(st, Issue("TAX_ERROR", "medium", << "tax" >>,
                                            "Invalid tax rate"))
                   ELSE SetFlag(st, "taxValidation")
             \* Math.abs(subtotal * closest / 100 - tax) > 0.01
             amountOff ==
                 Exceeds(RateGap(closestValidRate, b), 100 * tolerance,
                         DApart(ExpectedTax(b, closestValidRate), DFromMills(b.tax),
                                DFromMills(tolerance)))
         IN  IF amountOff
             THEN PushError(s1, Issue("TAX_ERROR", "medium", << "tax" >>,
                                      "Tax calculation error"))
             ELSE s1

----------------------------------------------------------------------------
(* Algorithm 3: total amount *)

validateTotalAmount(st) ==
    LET b == st.billData
        calculatedTotal == b.subtotal + b.tax - b.discount
        totalOff ==
            Exceeds(Abs(calculatedTotal - b.total), tolerance,
                    DApart(DSub(DAdd(DFromMills(b.subtotal), DFromMills(b.tax)),
                                DFromMills(b.discount)),
                           DFromMills(b.total), DFromMills(tolerance)))
        s1 == IF totalOff
              THEN PushError(st, Issue("TOTAL_ERROR", "high", << "total" >>,
                                       "Total calculation error"))
              ELSE SetFlag(st, "totalCheck")
        s2 == IF b.total < 0
              THEN PushError(s1, Issue("TOTAL_ERROR", "high", << "total" >>,
                                       "Total amount cannot be negative"))
              ELSE s1
    IN  IF b.total > Rs(100000, 0)
        THEN PushWarning(s2, Issue("TOTAL_ERROR", "low", << "total" >>,
                                   "Very high total amount"))
        ELSE s2

----------------------------------------------------------------------------
(* Algorithm 4: date logic *)

\* variant: a bill is very old from maxBillAge days on
validateDateLogicOldAtLimit(st, clock, zone) ==
    LET b == st.billData IN
    IF b.date.kind = "empty"
    THEN SetFlag(PushWarning(st, Issue("DATE_ERROR", "low", << "date" >>,
                                       "No date found on bill")),
                 "dateValidation")
    ELSE LET billDate == DateParse(b.date, zone)
             currentDate == clock
             \* daysDifference = (currentDate - billDate) / 24h, in hours here
             hoursDifference == currentDate - billDate.time
             s1 == IF ~billDate.nan /\ hoursDifference < -1 * 24
                   THEN PushError(st, Issue("DATE_ERROR", "high", << "date" >>,
                                            "Bill date is in the future"))
                   ELSE IF ~billDate.nan
                           /\ hoursDifference >= st.this.maxBillAge * 24
                        THEN PushWarning(st, Issue("OLD_DATE", "low", << "date" >>,
                                                   "Bill is very old"))
                        ELSE st
             s2 == IF ~billDate.nan /\ getDay(billDate, zone) = 0
                      /\ b.total > Rs(1000, 0)
                   THEN PushWarning(s1, Issue("DATE_ERROR", "low", << >>,
                                        "High-value transaction on Sunday"))
                   ELSE s1
         IN  SetFlag(s2, "dateValidation")

\* variant: a date is in the future as soon as it is after the current time
validateDateLogicNoSlack(st, clock, zone) ==
    LET b == st.billData IN
    IF b.date.kind = "empty"
    THEN SetFlag(PushWarning(st, Issue("DATE_ERROR", "low", << "date" >>,
                                       "No date found on bill")),
                 "dateValidation")
    ELSE LET billDate == DateParse(b.date, zone)
             currentDate == clock
             \* daysDifference = (currentDate - billDate) / 24h, in hours here
             hoursDifference == currentDate - billDate.time
             s1 == IF ~billDate.nan /\ hoursDifference < 0
                   THEN PushError(st, Issue("DATE_ERROR", "high", << "date" >>,
                                            "Bill date is in the future"))
                   ELSE IF ~billDate.nan
                           /\ hoursDifference > st.this.maxBillAge * 24
                        THEN PushWarning(st, Issue("OLD_DATE", "low", << "date" >>,
                                                   "Bill is very old"))
                        ELSE st
             s2 == IF ~billDate.nan /\ getDay(billDate, zone) = 0
                      /\ b.total > Rs(1000, 0)
                   THEN PushWarning(s1, Issue("DATE_ERROR", "low", << >>,
                                        "High-value transaction on Sunday"))
                   ELSE s1
         IN  SetFlag(s2, "dateValidation")

validateDateLogic(st, clock, zone) ==
    LET b == st.billData IN
    IF b.date.kind = "empty"
    THEN SetFlag(PushWarning(st, Issue("DATE_ERROR", "low", << "date" >>,
                                       "No date found on bill")),
                 "dateValidation")
    ELSE LET billDate == DateParse(b.date, zone)
             currentDate == clock
             \* daysDifference = (currentDate - billDate) / 24h, in hours here
             hoursDifference == currentDate - billDate.time
             s1 == IF ~billDate.nan /\ hoursDifference < -1 * 24
                   THEN PushError(st, Issue("DATE_ERROR", "high", << "date" >>,
                                            "Bill date is in the future"))
                   ELSE IF ~billDate.nan
                           /\ hoursDifference > st.this.maxBillAge * 24
                        THEN PushWarning(st, Issue("OLD_DATE", "low", << "date" >>,
                                                   "Bill is very old"))
                        ELSE st
             s2 == IF ~billDate.nan /\ getDay(billDate, zone) = 0
                      /\ b.total > Rs(1000, 0)
                   THEN PushWarning(s1, Issue("DATE_ERROR", "low", << >>,
                                        "High-value transaction on Sunday"))
                   ELSE s1
         IN  SetFlag(s2, "dateValidation")

----------------------------------------------------------------------------
(* Algorithm 5: pattern analysis *)

AllNamed(items) == \A i \in 1..Len(items) : Has(items[i], "name")

\* variant: the names are normalised in place
detectDuplicateItemsInPlace(st) ==
    LET b == st.billData IN
    IF ~Has(b, "items") \/ ~AllNamed(b.items) THEN Throw(st)
    ELSE LET itemNames == [i \in 1..Len(b.items) |->
                              trim(toLowerCase(b.items[i].name))]
             duplicates == { i \in 1..Len(itemNames) :
                              indexOf(itemNames, itemNames[i]) # i }
             s1 == [st EXCEPT !.billData.items =
                       [i \in 1..Len(b.items) |->
                           [b.items[i] EXCEPT !.name = itemNames[i]]]]
         IN  IF duplicates # {}
             THEN PushWarning(s1, Issue("DUPLICATE_ITEMS", "medium", << "items" >>,
                                        "Potential duplicate items"))
             ELSE s1

detectDuplicateItems(st) ==
    LET b == st.billData IN
    IF ~Has(b, "items") \/ ~AllNamed(b.items) THEN Throw(st)
    ELSE LET itemNames == [i \in 1..Len(b.items) |->
                              trim(toLowerCase(b.items[i].name))]
             duplicates == { i \in 1..Len(itemNames) :
                              indexOf(itemNames, itemNames[i]) # i }
         IN  IF duplicates # {}
             THEN PushWarning(st, Issue("DUPLICATE_ITEMS", "medium", << "items" >>,
                                        "Potential duplicate items"))
             ELSE st

\* zScore > 2 with zScore = |price - mean| / stdDev, multiplied out by the
\* item count n: n * (n*price - sum)^2 > 4 * SUM (n*price_i - sum)^2.
\* A zero deviation gives 0/0 = NaN, which is not > 2.
ZScoreAbove2(price, prices) ==
    LET n == Len(prices)
        sum == SumSeq(prices)
        dev(p) == (n * p - sum) * (n * p - sum)
    IN  n * dev(price) > 4 * SumSeq([i \in 1..n |-> dev(prices[i])])

detectPriceOutliers(st) ==
    LET b == st.billData IN
    IF Len(b.items) < 3 THEN st
    ELSE LET prices == [i \in 1..Len(b.items) |-> b.items[i].price]
             outliers == { i \in 1..Len(b.items) :
                             /\ b.items[i].price > st.this.maxReasonablePrice
                             /\ ZScoreAbove2(b.items[i].price, prices) }
         IN  IF outliers # {}
             THEN PushWarning(st, Issue("PRICE_OUTLIER", "low", << "items" >>,
                                        "Unusually high prices detected"))
             ELSE st

analyzeQuantityPatterns(st) ==
    LET b == st.billData
        unusualQuantities == { i \in 1..Len(b.items) :
                                 b.items[i].quantity > 100 \/ b.items[i].quantity <= 0 }
    IN  IF unusualQuantities # {}
        THEN PushWarning(st, Issue("SUSPICIOUS_PATTERN", "low", << "items" >>,
                                   "Unusual quantities detected"))
        ELSE st

detectSuspiciousRounding(st) ==
    LET b == st.billData
        roundPrices == Cardinality({ i \in 1..Len(b.items) :
                                       b.items[i].price % Rs(1, 0) = 0 })
        totalItems == Len(b.items)
        s1 == IF roundPrices = totalItems /\ totalItems > 3
              THEN PushWarning(st, Issue("SUSPICIOUS_PATTERN", "low", << >>,
                                         "All item prices are round numbers"))
              ELSE st
    IN  IF b.total % Rs(10, 0) = 0 /\ b.total > Rs(100, 0)
        THEN PushWarning(s1, Issue("SUSPICIOUS_PATTERN", "low", << >>,
                                   "Total amount is a round number"))
        ELSE s1

analyzePatterns(st) ==
    LET s1 == detectDuplicateItems(st)
        body == IF s1.thrown THEN s1
                ELSE SetFlag(detectSuspiciousRounding(
                                 analyzeQuantityPatterns(detectPriceOutliers(s1))),
                             "patternAnalysis")
    IN  IF body.thrown
        THEN Catch(body, Issue("SUSPICIOUS_PATTERN", "low", << >>,
                               "Unable to complete pattern analysis"))
        ELSE body

----------------------------------------------------------------------------
(* Algorithm 6: business logic (no handler of its own) *)

categoryKeywords ==
    [ food |->
        { << "r", "i", "c", "e" >>,
          << "b", "r", "e", "a", "d" >>,
          << "m", "i", "l", "k" >>,
          << "e", "g", "g" >>,
          << "c", "h", "i", "c", "k", "e", "n" >>,
          << "v", "e", "g", "e", "t", "a", "b", "l", "e" >>,
          << "f", "r", "u", "i", "t" >> },
      alcohol |->
        { << "b", "e", "e", "r" >>,
          << "w", "i", "n", "e" >>,
          << "w", "h", "i", "s", "k", "y" >>,
          << "v", "o", "d", "k", "a" >>,
          << "r", "u", "m" >> },
      baby |->
        { << "d", "i", "a", "p", "e", "r" >>,
          << "f", "o", "r", "m", "u", "l", "a" >>,
          << "b", "a", "b", "y" >>,
          << "i", "n", "f", "a", "n", "t" >> },
      medical |->
        { << "m", "e", "d", "i", "c", "i", "n", "e" >>,
          << "t", "a", "b", "l", "e", "t" >>,
          << "s", "y", "r", "u", "p" >>,
          << "b", "a", "n", "d", "a", "g", "e" >> } ]

\* the categories with a keyword occurring in some item name
categorizeItems(items) ==
    { category \in DOMAIN categoryKeywords :
        \E i \in 1..Len(items) :
            \E keyword \in categoryKeywords[category] :
                includes(toLowerCase(items[i].name), keyword) }

validateItemCombinations(st) ==
    LET b == st.billData IN
    IF ~Has(b, "items") \/ ~AllNamed(b.items) THEN Throw(st)
    ELSE LET itemCategories == categorizeItems(b.items) IN
         IF "baby" \in itemCategories /\ "alcohol" \in itemCategories
         THEN PushWarning(st, Issue("SUSPICIOUS_PATTERN", "low", << >>,
                                    "Unusual item combination detected"))
         ELSE st

\* one warning per lower-cased name carried by several items with more than
\* one unit price, in the order of the names' first occurrence
\* variant: the names are grouped after trimming, as the duplicate check does
RECURSIVE CheckNameGroupsTrimmed(_, _)
CheckNameGroupsTrimmed(st, index) ==
    LET items == st.billData.items IN
    IF index > Len(items) THEN st
    ELSE LET key == trim(toLowerCase(items[index].name))
             keys == [i \in 1..Len(items) |-> trim(toLowerCase(items[i].name))]
             group == { i \in 1..Len(items) : keys[i] = key }
             uniquePrices == { items[i].unitPrice : i \in group }
         IN  CheckNameGroupsTrimmed(
                 IF indexOf(keys, key) = index
                    /\ Cardinality(group) > 1 /\ Cardinality(uniquePrices) > 1
                 THEN PushWarning(st, Issue("PRICE_OUTLIER", "medium", << >>,
                                      "Same item has different unit prices"))
                 ELSE st,
                 index + 1)

RECURSIVE CheckNameGroups(_, _)
CheckNameGroups(st, index) ==
    LET items == st.billData.items IN
    IF index > Len(items) THEN st
    ELSE LET key == toLowerCase(items[index].name)
             keys == [i \in 1..Len(items) |-> toLowerCase(items[i].name)]
             group == { i \in 1..Len(items) : keys[i] = key }
             uniquePrices == { items[i].unitPrice : i \in group }
         IN  CheckNameGroups(
                 IF indexOf(keys, key) = index
                    /\ Cardinality(group) > 1 /\ Cardinality(uniquePrices) > 1
                 THEN PushWarning(st, Issue("PRICE_OUTLIER", "medium", << >>,
                                      "Same item has different unit prices"))
                 ELSE st,
                 index + 1)

validatePricingConsistency(st) == CheckNameGroups(st, 1)

validateBusinessLogic(st) ==
    LET b == st.billData
        s1 == IF b.total < Rs(1, 0)
              THEN PushError(st, Issue("TOTAL_ERROR", "high", << >>,
                                       "Total amount too small"))
              ELSE st
        s2 == validateItemCombinations(s1)
    IN  IF s2.thrown THEN s2 ELSE validatePricingConsistency(s2)

----------------------------------------------------------------------------
(* Algorithm 7: anomaly detection *)

\* price.toString().charAt(0): the leading digit, 0 below one rupee, and
\* -1 for the minus sign
RECURSIVE LeadingDigit(_)
LeadingDigit(n) == IF n < 10 THEN n ELSE LeadingDigit(n \div 10)

FirstDigit(price) ==
    IF price < 0 THEN -1 ELSE LeadingDigit(price \div Rs(1, 0))

\* Object.keys(digitCounts).reduce((a, b) => counts[a] > counts[b] ? a : b):
\* keys in ascending order (the sign last), a later key winning a tie
RECURSIVE MostCommon(_, _, _)
MostCommon(keys, best, count) ==
    IF keys = << >> THEN best
    ELSE MostCommon(Tail(keys),
                    IF count[best] > count[Head(keys)] THEN best ELSE Head(keys),
                    count)

checkBenfordsLaw(st) ==
    LET b == st.billData IN
    IF Len(b.items) < 10 THEN st
    ELSE LET firstDigits == SelectSeq([i \in 1..Len(b.items) |->
                                          FirstDigit(b.items[i].price)],
                                      LAMBDA d : d # 0)
             count == [d \in -1..9 |->
                          Cardinality({ i \in 1..Len(firstDigits) : firstDigits[i] = d })]
             keys == SelectSeq(<< 1, 2, 3, 4, 5, 6, 7, 8, 9, -1 >>,
                               LAMBDA d : count[d] > 0)
         IN  IF keys = << >> THEN Throw(st)   \* reduce of an empty array
             ELSE IF MostCommon(Tail(keys), Head(keys), count) # 1
                     /\ Len(firstDigits) > 20
                  THEN PushWarning(st, Issue("SUSPICIOUS_PATTERN", "low", << >>,
                                       "Price distribution may indicate artificial data"))
                  ELSE st

checkTimingAnomalies(st, zone) ==
    LET b == st.billData IN
    IF b.date.kind = "empty" THEN st
    ELSE LET billDate == DateParse(b.date, zone) IN
         IF ~billDate.nan
            /\ (getHours(billDate, zone) < 6 \/ getHours(billDate, zone) > 23)
         THEN PushWarning(st, Issue("DATE_ERROR", "low", << >>,
                                    "Transaction at unusual hour"))
         ELSE st

\* the handler only logs
detectAnomalies(st, zone) ==
    LET s1 == checkBenfordsLaw(st)
        body == IF s1.thrown THEN s1 ELSE checkTimingAnomalies(s1, zone)
    IN  [body EXCEPT !.thrown = FALSE]

----------------------------------------------------------------------------
(* The confidence score and the main validation function *)

\* variant: a high-severity error adds its points
ErrorDeductionSignSlip(severity) ==
    CASE severity = "high" -> -25
      [] severity = "medium" -> 15
      [] severity = "low" -> 5
      [] OTHER -> 0

\* variant: every error costs 20, as in the simple validator of server.js
ErrorDeductionFlat(severity) ==
    IF severity \in { "high", "medium", "low" } THEN 20 ELSE 0

ErrorDeduction(severity) ==
    CASE severity = "high" -> 25
      [] severity = "medium" -> 15
      [] severity = "low" -> 5
      [] OTHER -> 0

\* the 'low' case of the warnings switch
LowWarningDeduction(low) == low

WarningDeduction(severity, low) ==
    CASE severity = "high" -> 10
      [] severity = "medium" -> 5
      [] severity = "low" -> LowWarningDeduction(low)
      [] OTHER -> 0

\* the value the function returns for the accumulated score
ClampScore(score) == Max(0, score)

calculateConfidenceScore(validation, low) ==
    LET afterErrors ==
            100 - SumSeq([i \in 1..Len(validation.errors) |->
                             ErrorDeduction(validation.errors[i].severity)])
        score ==
            afterErrors - SumSeq([i \in 1..Len(validation.warnings) |->
                                     WarningDeduction(validation.warnings[i].severity, low)])
    IN  ClampScore(score)

\* the result of the top-level catch; algorithmResults is the empty object
CaughtResult ==
    [ isValid          |-> FALSE,
      errors           |-> << Issue("VALIDATION_ERROR", "high", << >>, "error.message") >>,
      warnings         |-> << >>,
      confidenceScore  |-> 0,
      algorithmResults |-> [f \in {} |-> FALSE] ]

\* variant: warnings count against validity
IsValidWithoutWarnings(validation) ==
    validation.errors = << >> /\ validation.warnings = << >>

\* validation.isValid = validation.errors.length === 0
IsValid(validation) == validation.errors = << >>

\* the two statements after the seven checks
Finish(st, low) ==
    IF st.thrown THEN st
    ELSE LET v == [st.validation EXCEPT !.isValid = IsValid(st.validation)]
         IN  [st EXCEPT !.validation =
                 [v EXCEPT !.confidenceScore = calculateConfidenceScore(v, low)]]

\* variant: the catch block reports on top of what the checks accumulated
TopLevelCatchKeeping(st) ==
    IF st.thrown
    THEN [st EXCEPT !.validation =
                        [st.validation EXCEPT
                            !.isValid = FALSE,
                            !.errors = Append(@, CaughtResult.errors[1]),
                            !.confidenceScore = 0],
                    !.thrown = FALSE, !.caught = TRUE]
    ELSE st

\* catch (error) { console.error(...); return {...} }
TopLevelCatch(st) ==
    IF st.thrown
    THEN [st EXCEPT !.validation = CaughtResult, !.thrown = FALSE, !.caught = TRUE]
    ELSE st

validateBill(self, bill, clock, zone, low) ==
    AndThen(validateMathematicalAccuracy(Call(self, bill)), LAMBDA s1 :
    AndThen(validateTaxCalculations(s1), LAMBDA s2 :
    AndThen(validateTotalAmount(s2), LAMBDA s3 :
    AndThen(validateDateLogic(s3, clock, zone), LAMBDA s4 :
    AndThen(analyzePatterns(s4), LAMBDA s5 :
    AndThen(validateBusinessLogic(s5), LAMBDA s6 :
    AndThen(IF s6.thrown THEN s6 ELSE detectAnomalies(s6, zone), LAMBDA s7 :
    TopLevelCatch(Finish(s7, low)))))))))

\* how a call ended, as its caller sees it
Path(out) ==
    IF out.thrown THEN "raised" ELSE IF out.caught THEN "catch" ELSE "normal"

----------------------------------------------------------------------------
(* The Receipts handed to the validator *)

ItemPool ==
    { [name |-> << "B", "e", "e", "r" >>,
       quantity |-> 1, unitPrice |-> Rs(85, 0), price |-> Rs(85, 0)],
      [name |-> << " ", "b", "e", "e", "r" >>,
       quantity |-> 0, unitPrice |-> Rs(40, 0), price |-> Rs(85, 0)],
      [name |-> << "b", "e", "e", "r" >>,
       quantity |-> 1, unitPrice |-> Rs(5, 50), price |-> Rs(5, 50)],
      [quantity |-> 1, unitPrice |-> Rs(85, 0), price |-> Rs(85, 0)] }

ItemLists == UNION { [1..n -> ItemPool] : n \in 0..MaxItems }

\* 2025-11-03, a Monday: 55 years, 14 leap days and 306 days after 1970-01-01
Today == 55 * 365 + 14 + 306

Dates ==
    { [kind |-> "empty", day |-> 0, hour |-> 0],
      [kind |-> "invalid", day |-> 0, hour |-> 0],
      [kind |-> "dateOnly", day |-> Today + 2, hour |-> 0],
      [kind |-> "dateOnly", day |-> Today - 1, hour |-> 0],
      [kind |-> "dateOnly", day |-> Today - 366, hour |-> 0],
      [kind |-> "dateTime", day |-> Today, hour |-> 10] }

Subtotals == { 0, Rs(85, 0), Rs(90, 0) }
Taxes == { 0, Rs(4, 25) }
TaxRates == { Rs(5, 0) }
Discounts == { 0, Rs(5, 0) }
Totals == { Rs(89, 25), Rs(-5, 0), Rs(200000, 0) }

Amounts ==
    [ subtotal : Subtotals, tax : Taxes, taxRate : TaxRates,
      discount : Discounts, total : Totals, date : Dates ]

\* a Receipt, with or without its items property
Receipt(a, items) ==
    [ date |-> a.date, items |-> items, subtotal |-> a.subtotal, tax |-> a.tax,
      taxRate |-> a.taxRate, discount |-> a.discount, total |-> a.total ]

Receipts ==
    { Receipt(a, items) : a \in Amounts, items \in ItemLists } \cup Amounts

\* the Receipt a parse starts from
DefaultReceipt ==
    [ date |-> [kind |-> "empty", day |-> 0, hour |-> 0], items |-> << >>,
      subtotal |-> 0, tax |-> 0, taxRate |-> 0, discount |-> 0, total |-> 0 ]

Clocks == { Today * 24, (Today + 1) * 24 + 12 }

\* what other callers validate in between
OtherReceipts ==
    { DefaultReceipt,
      [ date |-> [kind |-> "dateOnly", day |-> Today - 1, hour |-> 0],
        subtotal |-> Rs(85, 0), tax |-> Rs(4, 25), taxRate |-> Rs(5, 0),
        discount |-> 0, total |-> Rs(89, 25) ] }

Zones == { -5, 5 }

----------------------------------------------------------------------------
(* server.js: the validateBill of the API server, five checks in one       *)
(* function, on Receipts that carry every numeric field                    *)

\* before the call
NotCalled == [called |-> FALSE, thrown |-> FALSE, validation |-> NewValidation]

\* Math.abs((billData.subtotal * billData.taxRate) / 100 - billData.tax) > 0.01
ServerTaxOff(b) ==
    Exceeds(Abs(b.subtotal * b.taxRate - 100000 * b.tax), 100000 * tolerance,
            DApart(DDiv(DMul(DFromMills(b.subtotal), DFromMills(b.taxRate)),
                        DFromInt(100)),
                   DFromMills(b.tax), DFromMills(tolerance)))

\* itemNames.filter((name, index) => itemNames.indexOf(name) !== index)
ServerDuplicates(items) ==
    { j \in 1..Len(items) :
        \E i \in 1..(j - 1) : toLowerCase(items[i].name) = toLowerCase(items[j].name) }

serverValidateBill(b, clock, zone) ==
    IF ~Has(b, "items") \/ \E i \in 1..Len(b.items) : ~Has(b.items[i], "name")
    THEN [called |-> TRUE, thrown |-> TRUE, validation |-> NewValidation]
    ELSE
    LET calculatedSubtotal == SumSeq([i \in 1..Len(b.items) |-> b.items[i].price])
        mathErrors ==
            IF Exceeds(Abs(calculatedSubtotal - b.subtotal), tolerance,
                       DApart(DSum([i \in 1..Len(b.items) |-> b.items[i].price],
                                   Len(b.items)),
                              DFromMills(b.subtotal), DFromMills(tolerance)))
            THEN << Issue("MATH_ERROR", "high", << >>, "Subtotal mismatch") >>
            ELSE << >>
        taxErrors ==
            IF ServerTaxOff(b)
            THEN << Issue("TAX_ERROR", "medium", << >>, "Tax calculation error") >>
            ELSE << >>
        expectedTotal == b.subtotal + b.tax - b.discount
        totalErrors ==
            IF Exceeds(Abs(expectedTotal - b.total), tolerance,
                       DApart(DSub(DAdd(DFromMills(b.subtotal), DFromMills(b.tax)),
                                   DFromMills(b.discount)),
                              DFromMills(b.total), DFromMills(tolerance)))
            THEN << Issue("TOTAL_ERROR", "high", << >>, "Total calculation error") >>
            ELSE << >>
        billDate == IF Has(b, "date") THEN DateParse(b.date, zone)
                    ELSE [nan |-> TRUE, time |-> 0]
        \* daysDiff < -1, in hours here
        dateWarnings ==
            IF ~billDate.nan /\ clock - billDate.time < -1 * 24
            THEN << Issue("FUTURE_DATE", "low", << >>, "Bill date is in the future") >>
            ELSE << >>
        patternWarnings ==
            IF ServerDuplicates(b.items) # { }
            THEN << Issue("DUPLICATE_ITEMS", "medium", << >>,
                          "Potential duplicate items") >>
            ELSE << >>
        errors == mathErrors \o taxErrors \o totalErrors
        warnings == dateWarnings \o patternWarnings
        score == 100 - Len(errors) * 20 - Len(warnings) * 5
    IN  [ called |-> TRUE, thrown |-> FALSE,
          validation |->
            [ isValid |-> Len(errors) = 0,
              errors |-> errors,
              warnings |-> warnings,
              confidenceScore |-> IF score < 0 THEN 0 ELSE score,
              algorithmResults |->
                [ mathVerification |-> mathErrors = << >>,
                  taxValidation |-> taxErrors = << >>,
                  totalCheck |-> totalErrors = << >>,
                  dateValidation |-> dateWarnings = << >>,
                  patternAnalysis |-> TRUE ] ] ]

----------------------------------------------------------------------------
(* OCRService: the singleton and the asynchronous calls made on it.  An    *)
(* async function runs from one await to the next without interruption,   *)
(* so every action is one such stretch of one call.                        *)

\* how many calls are made on the singleton
MaxCalls == 2

Calls == 1..MaxCalls

\* null
NoWorker == 0

\* the instance after the constructor
OCRService == [tesseractWorker |-> NoWorker, isInitialized |-> FALSE]

\* a call that has not been made yet
NotStarted == [op |-> "none", at |-> "idle", worker |-> NoWorker]

\* process.exit(0) has run
Exited == \E call \in Calls : calls[call].at = "exited"

\* the first stretch of initialize(): the test of isInitialized and the call
\* of Tesseract.createWorker, whose promise the call then awaits
StartInitialize(call, op) ==
    IF ocr.isInitialized
    THEN /\ calls' = [calls EXCEPT ![call] = [op |-> op, at |-> "initialized",
                                              worker |-> NoWorker]]
         /\ UNCHANGED <<ocr, workers>>
    ELSE /\ workers' = Append(workers, "starting")
         /\ calls' = [calls EXCEPT ![call] = [op |-> op, at |-> "creating",
                                              worker |-> Len(workers) + 1]]
         /\ UNCHANGED ocr

\* a caller calls initialize()
Initialize ==
    \E call \in Calls :
        /\ ~Exited /\ calls[call].at = "idle"
        /\ StartInitialize(call, "initialize")
        /\ UNCHANGED validatorVars

\* a caller calls extractText(): initialize() when the flag is not set, else
\* straight to preprocessImage
ExtractText ==
    \E call \in Calls :
        /\ ~Exited /\ calls[call].at = "idle"
        /\ IF ~ocr.isInitialized
           THEN StartInitialize(call, "extractText")
           ELSE /\ calls' = [calls EXCEPT ![call] = [op |-> "extractText",
                                                     at |-> "preprocessing",
                                                     worker |-> NoWorker]]
                /\ UNCHANGED <<ocr, workers>>
        /\ UNCHANGED validatorVars

\* createWorker resolves: the call stores the worker in the instance and calls
\* setParameters on what the instance holds
WorkerCreated ==
    \E call \in Calls :
        /\ ~Exited /\ calls[call].at = "creating"
        /\ workers' = [workers EXCEPT ![calls[call].worker] = "ready"]
        /\ ocr' = [ocr EXCEPT !.tesseractWorker = calls[call].worker]
        /\ calls' = [calls EXCEPT ![call].at = "configuring"]
        /\ UNCHANGED validatorVars

\* setParameters resolves: the flag is set and initialize() returns
Configured ==
    \E call \in Calls :
        /\ ~Exited /\ calls[call].at = "configuring"
        /\ ocr' = [ocr EXCEPT !.isInitialized = TRUE]
        /\ calls' = [calls EXCEPT ![call].at = "initialized"]
        /\ UNCHANGED <<workers, validatorVars>>

\* createWorker or setParameters rejects: the catch block of initialize()
\* throws, and so does the catch block of an extractText() awaiting it
InitializeFails ==
    \E call \in Calls :
        /\ ~Exited /\ calls[call].at \in { "creating", "configuring" }
        /\ workers' = IF calls[call].at = "creating"
                      THEN [workers EXCEPT ![calls[call].worker] = "failed"]
                      ELSE workers
        /\ calls' = [calls EXCEPT ![call].at = "failed"]
        /\ UNCHANGED <<ocr, validatorVars>>

\* initialize() has returned: its caller is done, extractText() goes on to
\* preprocessImage
Initialized ==
    \E call \in Calls :
        /\ ~Exited /\ calls[call].at = "initialized"
        /\ calls' = [calls EXCEPT ![call].at =
                        IF calls[call].op = "extractText" THEN "preprocessing" ELSE "done"]
        /\ UNCHANGED <<ocr, workers, validatorVars>>

\* preprocessImage resolves: recognize is called on the worker the instance
\* holds now (a TypeError on null)
Preprocessed ==
    \E call \in Calls :
        /\ ~Exited /\ calls[call].at = "preprocessing"
        /\ calls' = [calls EXCEPT ![call] =
                        [op |-> "extractText",
                         at |-> IF ocr.tesseractWorker = NoWorker THEN "failed"
                                ELSE "recognizing",
                         worker |-> ocr.tesseractWorker]]
        /\ UNCHANGED <<ocr, workers, validatorVars>>

\* recognize resolves, or rejects on a terminated worker
Recognized ==
    \E call \in Calls :
        /\ ~Exited /\ calls[call].at = "recognizing"
        /\ calls' = [calls EXCEPT ![call].at =
                        IF workers[calls[call].worker] = "ready" THEN "done" ELSE "failed"]
        /\ UNCHANGED <<ocr, workers, validatorVars>>

\* a signal handler calls cleanup(): terminate() on the worker the instance
\* holds, if any
Cleanup ==
    \E call \in Calls :
        /\ ~Exited /\ calls[call].at = "idle"
        /\ \A other \in Calls : calls[other].op # "cleanup"
        /\ calls' = [calls EXCEPT ![call] = [op |-> "cleanup", at |-> "terminating",
                                             worker |-> ocr.tesseractWorker]]
        /\ UNCHANGED <<ocr, workers, validatorVars>>

\* terminate() resolves (or there was no worker) and the handler exits
Terminated ==
    \E call \in Calls :
        /\ ~Exited /\ calls[call].at = "terminating"
        /\ workers' = IF calls[call].worker = NoWorker THEN workers
                      ELSE [workers EXCEPT ![calls[call].worker] = "terminated"]
        /\ calls' = [calls EXCEPT ![call].at = "exited"]
        /\ UNCHANGED <<ocr, validatorVars>>

----------------------------------------------------------------------------
(* BillParser: strings are sequences of one-character strings, a raw text  *)
(* is the sequence of its lines (what split('\n') returns)                 *)

\* the characters of a string literal
Chars(s) == << >> \o [i \in 1..Len(s) |-> SubSeq(s, i, i)]

Rupee == "₹"

IsDigit(c) == c \in { "0", "1", "2", "3", "4", "5", "6", "7", "8", "9" }

\* [A-Za-z]
IsLetter(c) == LowerChar(c) \in
    { "a", "b", "c", "d", "e", "f", "g", "h", "i", "j", "k", "l", "m",
      "n", "o", "p", "q", "r", "s", "t", "u", "v", "w", "x", "y", "z" }

\* \w
IsWordChar(c) == IsLetter(c) \/ IsDigit(c) \/ c = "_"

\* \s
IsSpace(c) == c = " "

Least(S) == CHOOSE x \in S : \A y \in S : x <= y

CharAt(s, i) == IF i >= 1 /\ i <= Len(s) THEN s[i] ELSE ""

\* s has the characters of part from index i on
StartsAt(s, i, part) ==
    i >= 1 /\ i + Len(part) - 1 <= Len(s) /\ SubSeq(s, i, i + Len(part) - 1) = part

\* the index after the whitespace that starts at i (\s*)
SkipSpaces(s, i) ==
    CHOOSE j \in i..(Len(s) + 1) :
        /\ \A k \in i..(j - 1) : IsSpace(s[k])
        /\ ~IsSpace(CharAt(s, j))

\* the last index of the digits that start at i (\d*); i - 1 when there is none
DigitsEnd(s, i) ==
    CHOOSE j \in (i - 1)..Len(s) :
        /\ \A k \in i..j : IsDigit(s[k])
        /\ ~IsDigit(CharAt(s, j + 1))

\* the number a run of digits denotes
RECURSIVE DigitsValue(_)
DigitsValue(digits) ==
    IF digits = << >> THEN 0
    ELSE 10 * DigitsValue(SubSeq(digits, 1, Len(digits) - 1))
         + (CHOOSE d \in 0..9 : Chars("0123456789")[d + 1] = digits[Len(digits)])

\* (?:,\d{3})* from index j + 1 on: the last index of the groups, taken greedily
RECURSIVE GroupsEnd(_, _)
GroupsEnd(s, j) ==
    IF CharAt(s, j + 1) = "," /\ DigitsEnd(s, j + 2) >= j + 4
    THEN GroupsEnd(s, j + 4) ELSE j

\* (?:,\d{3})* from index j + 1 on: every index at which it can end
RECURSIVE GroupEnds(_, _)
GroupEnds(s, j) ==
    IF CharAt(s, j + 1) = "," /\ DigitsEnd(s, j + 2) >= j + 4
    THEN { j } \cup GroupEnds(s, j + 4) ELSE { j }

\* (?:\.\d{2})? from index j + 1 on
DecimalsEnd(s, j) ==
    IF CharAt(s, j + 1) = "." /\ DigitsEnd(s, j + 2) >= j + 3 THEN j + 3 ELSE j

\* \d+(?:,\d{3})*(?:\.\d{2})? at index i, taken greedily: its last index
\* (i - 1 when s has no digit at i)
AmountEnd(s, i) ==
    IF ~IsDigit(CharAt(s, i)) THEN i - 1
    ELSE DecimalsEnd(s, GroupsEnd(s, DigitsEnd(s, i)))

\* every index at which \d+(?:,\d{3})*(?:\.\d{2})? started at i can end so
\* that the rest of a pattern can follow (fewer digits leave a digit next)
AmountEnds(s, i) ==
    IF ~IsDigit(CharAt(s, i)) THEN { }
    ELSE UNION { { j, DecimalsEnd(s, j) } : j \in GroupEnds(s, DigitsEnd(s, i)) }

\* parseFloat(text.replace(/,/g, '')) of a matched amount, in thousandths
parseAmount(text) ==
    LET digits == SelectSeq(text, LAMBDA c : c # ",")
        whole  == DigitsEnd(digits, 1)
    IN  1000 * DigitsValue(SubSeq(digits, 1, whole))
        + (IF whole < Len(digits)
           THEN 10 * DigitsValue(SubSeq(digits, whole + 2, Len(digits)))
           ELSE 0)

\* The price patterns of the constructor, each a global regular expression
\* with its lastIndex:
\*   /₹\s*(AMOUNT)/g, /Rs\.?\s*(AMOUNT)/g, /INR\s*(AMOUNT)/g, /(AMOUNT)\s*₹/g
\* where AMOUNT is \d+(?:,\d{3})*(?:\.\d{2})?
BillParser ==
    [ pricePatterns |->
        << [sign |-> Chars(Rupee), dot |-> FALSE, after |-> FALSE, lastIndex |-> 0],
           [sign |-> Chars("Rs"),  dot |-> TRUE,  after |-> FALSE, lastIndex |-> 0],
           [sign |-> Chars("INR"), dot |-> FALSE, after |-> FALSE, lastIndex |-> 0],
           [sign |-> Chars(Rupee), dot |-> FALSE, after |-> TRUE,  lastIndex |-> 0] >> ]

NoMatch == [found |-> FALSE, first |-> 0, last |-> 0, from |-> 0, to |-> 0]

\* sign, \.? and \s* at index i, then the amount
MatchSignFirst(s, i, pattern) ==
    LET afterSign == i + Len(pattern.sign)
        afterDot  == IF pattern.dot /\ CharAt(s, afterSign) = "."
                     THEN afterSign + 1 ELSE afterSign
        digits    == SkipSpaces(s, afterDot)
    IN  IF StartsAt(s, i, pattern.sign) /\ IsDigit(CharAt(s, digits))
        THEN [found |-> TRUE, first |-> i, last |-> AmountEnd(s, digits),
              from |-> digits, to |-> AmountEnd(s, digits)]
        ELSE NoMatch

\* the amount at index i, then \s* and the sign
MatchSignLast(s, i, pattern) ==
    LET ends == { j \in AmountEnds(s, i) :
                    StartsAt(s, SkipSpaces(s, j + 1), pattern.sign) }
    IN  IF ends = { } THEN NoMatch
        ELSE LET j == CHOOSE j \in ends : TRUE
             IN  [found |-> TRUE, first |-> i,
                  last |-> SkipSpaces(s, j + 1) + Len(pattern.sign) - 1,
                  from |-> i, to |-> j]

\* the match of a pattern that starts at index i; from..to is its group 1
MatchAt(s, i, pattern) ==
    IF pattern.after THEN MatchSignLast(s, i, pattern)
    ELSE MatchSignFirst(s, i, pattern)

\* the first match at or after index start
Search(s, start, pattern) ==
    AndThen({ i \in start..Len(s) : MatchAt(s, i, pattern).found }, LAMBDA starts :
        IF starts = { } THEN NoMatch ELSE MatchAt(s, Least(starts), pattern))

\* the successive matches from index start on
RECURSIVE MatchesFrom(_, _, _)
MatchesFrom(s, start, pattern) ==
    AndThen(Search(s, start, pattern), LAMBDA m :
        IF m.found THEN << m >> \o MatchesFrom(s, m.last + 1, pattern) ELSE << >>)

\* variant: the shared pattern object is run itself (pattern.exec), which
\* starts at its lastIndex and leaves lastIndex behind the match
matchAllShared(self, line, k) ==
    AndThen(Search(line, self.pricePatterns[k].lastIndex + 1, self.pricePatterns[k]),
            LAMBDA m :
        [ this |-> [self EXCEPT !.pricePatterns[k].lastIndex =
                                    IF m.found THEN m.last ELSE 0],
          matches |-> IF m.found THEN << m >> ELSE << >> ])

\* [...line.matchAll(pattern)]: the iteration runs on a copy of the pattern
\* that starts at the pattern's lastIndex; the pattern itself is not touched
matchAll(self, line, k) ==
    [ this |-> self,
      matches |-> MatchesFrom(line, self.pricePatterns[k].lastIndex + 1,
                              self.pricePatterns[k]) ]

\* the patterns from the k-th on, in order: the last match of the first
\* pattern that matches; price is << >> for null
RECURSIVE PriceFrom(_, _, _)
PriceFrom(self, line, k) ==
    IF k > Len(self.pricePatterns) THEN [this |-> self, price |-> << >>]
    ELSE AndThen(matchAll(self, line, k), LAMBDA all :
             IF all.matches # << >>
             THEN LET lastMatch == all.matches[Len(all.matches)]
                  IN  [this |-> all.this,
                       price |-> << parseAmount(SubSeq(line, lastMatch.from,
                                                       lastMatch.to)) >>]
             ELSE PriceFrom(all.this, line, k + 1))

extractPriceFromLine(self, line) == PriceFrom(self, line, 1)

\* the characters of s at the indices that pass the test, in order
Pick(s, Test(_)) ==
    AndThen(SelectSeq(<< >> \o [i \in 1..Len(s) |-> i], Test), LAMBDA kept :
        << >> \o [k \in 1..Len(kept) |-> s[kept[k]]])

\* line.replace(/\s+/g, ' ')
CollapseSpaces(s) ==
    Pick(s, LAMBDA i : ~(IsSpace(s[i]) /\ i > 1 /\ IsSpace(s[i - 1])))

\* variant: a text without a non-blank line throws like a value without split
preprocessTextStrict(text) ==
    IF text.type # "string" \/ \A i \in 1..Len(text.lines) : trim(Chars(text.lines[i])) = << >>
    THEN [thrown |-> TRUE, lines |-> << >>]
    ELSE [ thrown |-> FALSE,
           lines |->
             AndThen(SelectSeq(<< >> \o [i \in 1..Len(text.lines) |->
                                            trim(Chars(text.lines[i]))],
                               LAMBDA line : Len(line) > 0),
                     LAMBDA lines :
                 << >> \o [i \in 1..Len(lines) |-> CollapseSpaces(lines[i])]) ]

\* A string is the sequence of its lines; any other value (null, undefined,
\* a number) has no split method and the call throws a TypeError.
preprocessText(text) ==
    IF text.type # "string" THEN [thrown |-> TRUE, lines |-> << >>]
    ELSE [ thrown |-> FALSE,
           lines |->
             AndThen(SelectSeq(<< >> \o [i \in 1..Len(text.lines) |->
                                            trim(Chars(text.lines[i]))],
                               LAMBDA line : Len(line) > 0),
                     LAMBDA lines :
                 << >> \o [i \in 1..Len(lines) |-> CollapseSpaces(lines[i])]) ]

\* keywords.some(keyword => lowerLine.includes(keyword))
IncludesSome(lowerLine, keywords) ==
    \E keyword \in keywords : includes(lowerLine, Chars(keyword))

\* /[A-Za-z]{2,}/.test(line)
HasText(line) ==
    \E i \in 1..(Len(line) - 1) : IsLetter(line[i]) /\ IsLetter(line[i + 1])

\* /(?:total|subtotal|tax|gst|amount|discount):/i.test(line)
IsTotal(line) ==
    IncludesSome(toLowerCase(line),
                 { "total:", "subtotal:", "tax:", "gst:", "amount:", "discount:" })

looksLikeItemLine(self, line) ==
    AndThen(extractPriceFromLine(self, line), LAMBDA found :
        [ this |-> found.this,
          value |-> /\ found.price # << >>
                    /\ HasText(line)
                    /\ ~IsTotal(line)
                    /\ Len(line) > 5 ])

\* the natural number of a bignum
RECURSIVE BigToInt(_)
BigToInt(a) == IF a = << >> THEN 0 ELSE Head(a) + Base * BigToInt(Tail(a))

\* the integer n for which n / 100 is nearest to the double x >= 0, the
\* larger one of two: floor(100 x + 1/2)
NearestHundredth(x) ==
    IF x.m = << >> THEN 0
    ELSE IF x.e >= 0 THEN BigToInt(BigShl(BigMulSmall(x.m, 100), x.e))
    ELSE BigToInt(BigShr(BigAdd(BigMulSmall(x.m, 200), BigShl(<< 1 >>, -x.e)),
                         1 - x.e))

\* parseFloat(x.toFixed(2)) in thousandths, for a double x whose exact
\* counterpart is num / den hundredths: off a half the rounding of x cannot
\* change the digits; on a half they are those of the double
toFixed2(num, den, x) ==
    LET sign == IF num < 0 THEN -1 ELSE 1
        rest == Abs(num) % den
    IN  10 * sign * (IF 2 * rest < den THEN Abs(num) \div den
                     ELSE IF 2 * rest > den THEN Abs(num) \div den + 1
                     ELSE NearestHundredth(DAbs(x)))

\* The expression that strips the prices of a line:
\*   /₹\s*AMOUNT|AMOUNT\s*₹|Rs\.?\s*AMOUNT/g
priceRegex ==
    << [sign |-> Chars(Rupee), dot |-> FALSE, after |-> FALSE],
       [sign |-> Chars(Rupee), dot |-> FALSE, after |-> TRUE],
       [sign |-> Chars("Rs"),  dot |-> TRUE,  after |-> FALSE] >>

\* the match of the first alternative that matches at index i
MatchAnyAt(s, i, alternatives) ==
    IF \E k \in 1..Len(alternatives) : MatchAt(s, i, alternatives[k]).found
    THEN MatchAt(s, i, alternatives[Least({ k \in 1..Len(alternatives) :
                                              MatchAt(s, i, alternatives[k]).found })])
    ELSE NoMatch

\* s.replace(regex, '') from index start on, for a global regex
RECURSIVE RemoveAll(_, _, _)
RemoveAll(s, start, alternatives) ==
    AndThen({ i \in start..Len(s) : MatchAnyAt(s, i, alternatives).found },
            LAMBDA starts :
        IF starts = { } THEN SubSeq(s, start, Len(s))
        ELSE SubSeq(s, start, Least(starts) - 1)
             \o RemoveAll(s, MatchAnyAt(s, Least(starts), alternatives).last + 1,
                          alternatives))

\* x|pcs?|kg|gm?|ml|ltr?
QuantityUnits == { "x", "pcs", "pc", "kg", "gm", "g", "ml", "ltr", "lt" }

\* (\d+)\s*(?:x|pcs?|kg|gm?|ml|ltr?)\b at index i, letters in either case
QuantityAt(s, i) ==
    LET digits == DigitsEnd(s, i)
        unit   == SkipSpaces(s, digits + 1)
        units  == { u \in QuantityUnits :
                      /\ StartsAt(toLowerCase(s), unit, Chars(u))
                      /\ ~IsWordChar(CharAt(s, unit + Len(u))) }
    IN  IF IsDigit(CharAt(s, i)) /\ units # { }
        THEN [found |-> TRUE, first |-> i,
              last |-> unit + Len(CHOOSE u \in units : TRUE) - 1,
              from |-> i, to |-> digits]
        ELSE NoMatch

\* itemDescription.match(/(\d+)\s*(?:x|pcs?|kg|gm?|ml|ltr?)\b/i)
QuantityMatch(s) ==
    AndThen({ i \in 1..Len(s) : QuantityAt(s, i).found }, LAMBDA starts :
        IF starts = { } THEN NoMatch ELSE QuantityAt(s, Least(starts)))

\* s.replace(text, ''): the first occurrence of the text goes
RemoveFirst(s, text) ==
    AndThen({ i \in 1..Len(s) : StartsAt(s, i, text) }, LAMBDA starts :
        IF starts = { } THEN s
        ELSE SubSeq(s, 1, Least(starts) - 1)
             \o SubSeq(s, Least(starts) + Len(text), Len(s)))

\* s.replace(/^\d+\.?\s*/, '')
RemoveLeadingNumber(s) ==
    IF ~IsDigit(CharAt(s, 1)) THEN s
    ELSE LET digits == DigitsEnd(s, 1)
             dot    == IF CharAt(s, digits + 1) = "." THEN digits + 1 ELSE digits
         IN  SubSeq(s, SkipSpaces(s, dot + 1), Len(s))

\* the item of a line with price `price`; << >> for null
ItemOf(line, price) ==
    AndThen(trim(RemoveAll(line, 1, priceRegex)), LAMBDA stripped :
    AndThen(QuantityMatch(stripped), LAMBDA qtyMatch :
    AndThen(IF qtyMatch.found
            THEN DigitsValue(SubSeq(stripped, qtyMatch.from, qtyMatch.to)) ELSE 1,
            LAMBDA quantity :
    AndThen(trim(CollapseSpaces(RemoveLeadingNumber(
                IF qtyMatch.found
                THEN trim(RemoveFirst(stripped,
                                      SubSeq(stripped, qtyMatch.first, qtyMatch.last)))
                ELSE stripped))),
            LAMBDA itemDescription :
        IF Len(itemDescription) < 2 THEN << >>
        ELSE << [ name |-> itemDescription,
                  quantity |-> quantity,
                  unitPrice |-> IF quantity = 0 THEN Infinity
                                ELSE toFixed2(price, 10 * quantity,
                                              DDiv(DFromMills(price),
                                                   DFromInt(quantity))),
                  price |-> toFixed2(price, 10, DFromMills(price)) ] >>))))

\* no statement of the try block throws on a string
parseItemLine(self, line) ==
    AndThen(extractPriceFromLine(self, line), LAMBDA found :
        [ this |-> found.this,
          item |-> IF found.price = << >> \/ found.price = << 0 >> THEN << >>
                   ELSE ItemOf(line, found.price[1]) ])

itemStartKeywords ==
    { "item", "product", "description", "====", "----", "qty", "quantity" }

itemEndKeywords ==
    { "subtotal", "sub total", "total", "tax", "gst", "====", "----",
      "discount", "amount" }

\* The loop that finds the section: at is the state before line i (from 1),
\* with start and end as the code's 0-based indices.
RECURSIVE FindSection(_, _, _)
FindSection(lines, i, at) ==
    IF i > Len(lines) THEN at
    ELSE
    AndThen(toLowerCase(lines[i]), LAMBDA lowerLine :
    \* if (!inItemSection && (start keyword || looksLikeItemLine))
    AndThen(IF at.inItemSection \/ IncludesSome(lowerLine, itemStartKeywords)
            THEN [this |-> at.this, value |-> ~at.inItemSection]
            ELSE looksLikeItemLine(at.this, lines[i]),
            LAMBDA opens :
    AndThen(IF opens.value
            THEN [at EXCEPT !.this = opens.this, !.inItemSection = TRUE,
                            !.itemStartIndex = i - 1]
            ELSE [at EXCEPT !.this = opens.this],
            LAMBDA inside :
    \* if (inItemSection && end keyword && !looksLikeItemLine) break
    AndThen(IF inside.inItemSection /\ IncludesSome(lowerLine, itemEndKeywords)
            THEN looksLikeItemLine(inside.this, lines[i])
            ELSE [this |-> inside.this, value |-> TRUE],
            LAMBDA stays :
        IF ~stays.value
        THEN [inside EXCEPT !.this = stays.this, !.itemEndIndex = i - 1]
        ELSE FindSection(lines, i + 1, [inside EXCEPT !.this = stays.this])))))

\* the items of the lines with 0-based indices i .. itemEndIndex - 1
RECURSIVE ItemsFrom(_, _, _, _)
ItemsFrom(self, lines, i, itemEndIndex) ==
    IF i >= itemEndIndex THEN [this |-> self, items |-> << >>]
    ELSE AndThen(parseItemLine(self, lines[i + 1]), LAMBDA one :
         AndThen(ItemsFrom(one.this, lines, i + 1, itemEndIndex), LAMBDA rest :
             [this |-> rest.this, items |-> one.item \o rest.items]))

extractItems(self, lines) ==
    AndThen(FindSection(lines, 1,
                        [this |-> self, inItemSection |-> FALSE,
                         itemStartIndex |-> -1, itemEndIndex |-> Len(lines)]),
            LAMBDA section :
        ItemsFrom(section.this, lines, Max(0, section.itemStartIndex),
                  section.itemEndIndex))

totalKeywords ==
    [ subtotal |-> { "subtotal", "sub total", "sub-total", "amount" },
      tax      |-> { "tax", "gst", "vat", "cgst", "sgst", "igst" },
      discount |-> { "discount", "off", "reduction" },
      total    |-> { "total", "grand total", "final total", "net total",
                     "amount payable" } ]

\* (\d+(?:\.\d+)?)\s*% at index i; from..to is the number
RateAt(s, i) ==
    LET digits   == DigitsEnd(s, i)
        decimals == IF CharAt(s, digits + 1) = "." /\ IsDigit(CharAt(s, digits + 2))
                    THEN DigitsEnd(s, digits + 2) ELSE digits
    IN  IF IsDigit(CharAt(s, i)) /\ CharAt(s, SkipSpaces(s, decimals + 1)) = "%"
        THEN [found |-> TRUE, first |-> i, last |-> SkipSpaces(s, decimals + 1),
              from |-> i, to |-> decimals]
        ELSE NoMatch

\* line.match(/(\d+(?:\.\d+)?)\s*%/)
RateMatch(s) ==
    AndThen({ i \in 1..Len(s) : RateAt(s, i).found }, LAMBDA starts :
        IF starts = { } THEN NoMatch ELSE RateAt(s, Least(starts)))

\* parseFloat of digits with up to three decimals, in thousandths
parseRate(text) ==
    LET whole    == DigitsEnd(text, 1)
        decimals == SubSeq(text, whole + 2, Len(text))
    IN  1000 * DigitsValue(SubSeq(text, 1, whole))
        + (DigitsValue(decimals) * 1000) \div (10 ^ Len(decimals))

\* the price of the line when the block's condition holds, else no call
PriceIf(condition, self, line) ==
    IF condition THEN extractPriceFromLine(self, line)
    ELSE [this |-> self, price |-> << >>]

\* if (price && price > 0)
PricePositive(found) == found.price # << >> /\ found.price[1] > 0

\* the four blocks of the loop body on one line
TotalsOfLine(self, line, bill) ==
    AndThen(toLowerCase(line), LAMBDA lowerLine :
    AndThen(PriceIf(/\ IncludesSome(lowerLine, totalKeywords.subtotal)
                    /\ ~includes(lowerLine, Chars("tax"))
                    /\ ~includes(lowerLine, Chars("total")),
                    self, line),
            LAMBDA subtotal :
    AndThen(PriceIf(IncludesSome(lowerLine, totalKeywords.tax), subtotal.this, line),
            LAMBDA tax :
    AndThen(PriceIf(IncludesSome(lowerLine, totalKeywords.discount), tax.this, line),
            LAMBDA discount :
    AndThen(PriceIf(/\ IncludesSome(lowerLine, totalKeywords.total)
                    /\ ~includes(lowerLine, Chars("sub")),
                    discount.this, line),
            LAMBDA total :
    AndThen(RateMatch(line), LAMBDA rateMatch :
        [ this |-> total.this,
          billData |->
            [ bill EXCEPT
                !.subtotal = IF PricePositive(subtotal) THEN subtotal.price[1] ELSE @,
                \* price && price >= 0: a price of 0 is falsy
                !.tax = IF PricePositive(tax) THEN @ + tax.price[1] ELSE @,
                !.taxRate = IF PricePositive(tax) /\ rateMatch.found
                            THEN Max(@, parseRate(SubSeq(line, rateMatch.from,
                                                         rateMatch.to)))
                            ELSE @,
                !.discount = IF PricePositive(discount) THEN discount.price[1] ELSE @,
                !.total = IF PricePositive(total) THEN total.price[1] ELSE @ ] ]))))))

RECURSIVE TotalsFrom(_, _, _, _)
TotalsFrom(self, lines, i, bill) ==
    IF i > Len(lines) THEN [this |-> self, billData |-> bill]
    ELSE AndThen(TotalsOfLine(self, lines[i], bill), LAMBDA done :
             TotalsFrom(done.this, lines, i + 1, done.billData))

extractFinancialTotals(self, lines, bill) == TotalsFrom(self, lines, 1, bill)

\* parseFloat(v.toFixed(2)) of an amount of v thousandths
Round2(v) == toFixed2(v, 10, DFromMills(v))

\* variant: the subtotal is the sum of the items whenever there are items
calculateDerivedValuesOverwriting(bill) ==
    AndThen(IF Len(bill.items) > 0
            THEN [bill EXCEPT !.subtotal =
                      SumSeq([i \in 1..Len(bill.items) |-> bill.items[i].price])]
            ELSE bill,
            LAMBDA b1 :
    AndThen(IF b1.taxRate = 0 /\ b1.subtotal > 0 /\ b1.tax > 0
            THEN [b1 EXCEPT !.taxRate =
                      toFixed2(10000 * b1.tax, b1.subtotal,
                               DMul(DDiv(DFromMills(b1.tax), DFromMills(b1.subtotal)),
                                    DFromInt(100)))]
            ELSE [b1 EXCEPT !.taxRate = Round2(@)],
            LAMBDA b2 :
    AndThen(IF b2.total = 0
            THEN [b2 EXCEPT !.total = b2.subtotal + b2.tax - b2.discount]
            ELSE b2,
            LAMBDA b3 :
        [ b3 EXCEPT !.subtotal = Round2(@), !.tax = Round2(@),
                    !.discount = Round2(@), !.total = Round2(@) ])))

\* variant: the derived total leaves the discount out
calculateDerivedValuesNoDiscount(bill) ==
    AndThen(IF bill.subtotal = 0 /\ Len(bill.items) > 0
            THEN [bill EXCEPT !.subtotal =
                      SumSeq([i \in 1..Len(bill.items) |-> bill.items[i].price])]
            ELSE bill,
            LAMBDA b1 :
    AndThen(IF b1.taxRate = 0 /\ b1.subtotal > 0 /\ b1.tax > 0
            THEN [b1 EXCEPT !.taxRate =
                      toFixed2(10000 * b1.tax, b1.subtotal,
                               DMul(DDiv(DFromMills(b1.tax), DFromMills(b1.subtotal)),
                                    DFromInt(100)))]
            ELSE [b1 EXCEPT !.taxRate = Round2(@)],
            LAMBDA b2 :
    AndThen(IF b2.total = 0
            THEN [b2 EXCEPT !.total = b2.subtotal + b2.tax]
            ELSE b2,
            LAMBDA b3 :
        [ b3 EXCEPT !.subtotal = Round2(@), !.tax = Round2(@),
                    !.discount = Round2(@), !.total = Round2(@) ])))

calculateDerivedValues(bill) ==
    AndThen(IF bill.subtotal = 0 /\ Len(bill.items) > 0
            THEN [bill EXCEPT !.subtotal =
                      SumSeq([i \in 1..Len(bill.items) |-> bill.items[i].price])]
            ELSE bill,
            LAMBDA b1 :
    AndThen(IF b1.taxRate = 0 /\ b1.subtotal > 0 /\ b1.tax > 0
            THEN [b1 EXCEPT !.taxRate =
                      toFixed2(10000 * b1.tax, b1.subtotal,
                               DMul(DDiv(DFromMills(b1.tax), DFromMills(b1.subtotal)),
                                    DFromInt(100)))]
            ELSE [b1 EXCEPT !.taxRate = Round2(@)],
            LAMBDA b2 :
    AndThen(IF b2.total = 0
            THEN [b2 EXCEPT !.total = b2.subtotal + b2.tax - b2.discount]
            ELSE b2,
            LAMBDA b3 :
        [ b3 EXCEPT !.subtotal = Round2(@), !.tax = Round2(@),
                    !.discount = Round2(@), !.total = Round2(@) ])))

\* No line of a text holds a date, so extractDate finds none; the fields
\* validateBill never reads (storeName, storeAddress, billNumber, currency,
\* rawText) are left out of the Receipt.
extractDate(lines) == [kind |-> "empty", day |-> 0, hour |-> 0]

\* error.message of the TypeError for text.split
SplitMessage(text) ==
    IF text.type \in { "null", "undefined" }
    THEN "Cannot read properties of " \o text.type \o " (reading 'split')"
    ELSE "text.split is not a function"

\* before any call
NoResult ==
    [ thrown |-> FALSE, name |-> "", message |-> "", billData |-> DefaultReceipt,
      shared |-> FALSE ]

parseBillData(self, ocrText) ==
    AndThen(preprocessText(ocrText), LAMBDA text :
        IF text.thrown
        THEN \* catch (error) { throw new Error(`Bill parsing failed: ...`) }
             [ this |-> self, thrown |-> TRUE, name |-> "Error",
               message |-> "Bill parsing failed: " \o SplitMessage(ocrText),
               billData |-> DefaultReceipt ]
        ELSE
    AndThen(extractItems(self, text.lines), LAMBDA found :
    AndThen(extractFinancialTotals(found.this, text.lines,
                [ date |-> extractDate(text.lines), items |-> found.items,
                  subtotal |-> 0, tax |-> 0, taxRate |-> 0, discount |-> 0,
                  total |-> 0 ]),
            LAMBDA totals :
        [ this |-> totals.this, thrown |-> FALSE, name |-> "", message |-> "",
          billData |-> calculateDerivedValues(totals.billData) ])))

----------------------------------------------------------------------------
(* The state machine *)

Init ==
    /\ this = ValidationService
    /\ tz \in Zones
    /\ lowDeduction \in 1..MaxLowDeduction
    /\ pc = "idle"
    /\ path = "normal"
    /\ billData = DefaultReceipt
    /\ arg = DefaultReceipt
    /\ now = Today * 24
    /\ result = NewValidation
    /\ prevResult = NewValidation
    /\ parser = BillParser
    /\ rawText = [type |-> "undefined"]
    /\ parsed = NoResult
    /\ simple = NotCalled
    /\ ocr = OCRService
    /\ workers = << >>
    /\ calls = [call \in Calls |-> NotStarted]

\* a caller validates a Receipt
ValidateBill ==
    /\ pc = "idle"
    /\ \E receipt \in Receipts, clock \in Clocks :
        \E out \in { validateBill(this, receipt, clock, tz, lowDeduction) } :
        /\ this' = out.this
        /\ billData' = out.billData
        /\ arg' = receipt
        /\ now' = clock
        /\ result' = out.validation
        /\ prevResult' = NewValidation
        /\ pc' = "returned"
        /\ path' = Path(out)
        /\ UNCHANGED <<tz, lowDeduction, parser, rawText, parsed, simple, ocrVars>>

\* the caller validates the same Receipt object again, at the same time
ValidateAgain ==
    /\ pc # "idle"
    /\ \E out \in { validateBill(this, billData, now, tz, lowDeduction) } :
        /\ this' = out.this
        /\ billData' = out.billData
        /\ result' = out.validation
        /\ prevResult' = result
        /\ pc' = "repeated"
        /\ path' = Path(out)
        /\ UNCHANGED <<tz, lowDeduction, arg, now, parser, rawText, parsed, simple, ocrVars>>

\* another caller validates some Receipt of its own, at any time
OtherCall ==
    /\ pc = "returned"
    /\ \E receipt \in OtherReceipts, clock \in Clocks :
        \E out \in { validateBill(this, receipt, clock, tz, lowDeduction) } :
        /\ this' = out.this
        /\ UNCHANGED <<tz, lowDeduction, pc, path, billData, arg, now, result,
                     prevResult, parser, rawText, parsed, simple, ocrVars>>

Next == ValidateBill \/ ValidateAgain \/ OtherCall

Spec == Init /\ [][Next]_vars

----------------------------------------------------------------------------
(* Properties of validateBill *)

Returned == pc # "idle"

Count(issues, severity) ==
    Cardinality({ i \in 1..Len(issues) : issues[i].severity = severity })

Types(issues) == { issues[i].type : i \in 1..Len(issues) }

\* what all errors and warnings of a result would cost without the clamp
Deductions(v) ==
    25 * Count(v.errors, "high") + 15 * Count(v.errors, "medium")
      + 5 * Count(v.errors, "low")
      + 10 * Count(v.warnings, "high") + 5 * Count(v.warnings, "medium")
      + lowDeduction * Count(v.warnings, "low")

\* C1: on every return path isValid is true exactly when the errors list is
\* empty, whatever the warnings are.
C1_ValidIffNoErrors ==
    Returned => (result.isValid <=> result.errors = << >>)

C1_Witness ==
    Returned /\ result.isValid /\ Len(result.warnings) >= 2

\* C2: the confidence score is an integer between 0 and 100, also when the
\* deductions add up to more than 100.
C2_ScoreInRange ==
    Returned => result.confidenceScore \in 0..100

C2_Witness ==
    Returned /\ path = "normal" /\ Deductions(result) > 100
      /\ result.confidenceScore = 0

\* C3: on the normal path the score is max(0, 100 - 25/15/5 per high/medium/
\* low error - 10/5/w per high/medium/low warning), over the final lists.
C3_ScoreFormula ==
    (Returned /\ path = "normal") =>
        result.confidenceScore = Max(0, 100 - Deductions(result))

C3_Witness ==
    Returned /\ path = "normal"
      /\ Count(result.errors, "high") > 0 /\ Count(result.errors, "medium") > 0
      /\ Count(result.warnings, "medium") > 0 /\ Count(result.warnings, "low") > 0
      /\ result.confidenceScore > 0

\* C4: no exception reaches the caller; when a check throws past its own
\* handler the call returns isValid = false, the single high VALIDATION_ERROR,
\* no warnings and confidence 0.
C4_CatchResult ==
    Returned =>
        /\ path # "raised"
        /\ path = "catch" =>
              /\ result.isValid = FALSE
              /\ Len(result.errors) = 1
              /\ result.errors[1].type = "VALIDATION_ERROR"
              /\ result.errors[1].severity = "high"
              /\ result.warnings = << >>
              /\ result.confidenceScore = 0

\* a Receipt with an unnamed item and a total below 1: the math check and the
\* business check had pushed errors before categorizeItems threw
C4_Witness ==
    Returned /\ path = "catch" /\ Has(arg, "items") /\ arg.total < Rs(1, 0)
      /\ arg.subtotal = 0

\* C5: a fault inside a check is recorded as a warning at that check's
\* boundary and the other checks' outcome is still returned; a Receipt without
\* items faults in the math check, the pattern analysis and the business logic.
C5_FaultsStayLocal ==
    (Returned /\ ~Has(arg, "items")) =>
        /\ path = "normal"
        /\ \E i \in 1..Len(result.warnings) :
              result.warnings[i].message = "Unable to verify mathematical accuracy"

\* C6: after the call the Receipt is what it was before the call.
C6_ReceiptUnchanged ==
    Returned => billData = arg

C6_Witness ==
    /\ pc = "returned" /\ path = "normal" /\ Len(arg.items) = 2
    /\ "DUPLICATE_ITEMS" \in Types(result.warnings)
    /\ Len(result.errors) > 0

\* C7: a second call on the same Receipt at the same current time, with other
\* calls in between, returns the same result as the first.
C7_Deterministic ==
    pc = "repeated" => result = prevResult

C7_Witness ==
    /\ pc = "repeated" /\ path = "normal"
    /\ "MATH_ERROR" \in Types(result.errors) /\ result.warnings # << >>

\* The issue types the Bill schema accepts
ErrorTypes ==
    { "MATH_ERROR", "TAX_ERROR", "TOTAL_ERROR", "DATE_ERROR", "PRICE_ERROR" }

WarningTypes ==
    { "FUTURE_DATE", "OLD_DATE", "DUPLICATE_ITEMS", "PRICE_OUTLIER",
      "SUSPICIOUS_PATTERN" }

\* C8: every returned error has a type of the schema's error enumeration and
\* every returned warning a type of its warning enumeration.
C8_ClosedIssueTypes ==
    Returned =>
        /\ Types(result.errors) \subseteq ErrorTypes
        /\ Types(result.warnings) \subseteq WarningTypes

\* The Receipt of Scenario 1 (its date is not given), and of Scenario 2
ScenarioItems(r) ==
    /\ Has(r, "items") /\ Len(r.items) = 1 /\ Has(r.items[1], "name")
    /\ r.items[1].quantity = 1
    /\ r.items[1].unitPrice = Rs(85, 0) /\ r.items[1].price = Rs(85, 0)
    /\ r.taxRate = Rs(5, 0) /\ r.tax = Rs(4, 25) /\ r.discount = 0
    /\ r.total = Rs(89, 25)

IsScenario1(r) == ScenarioItems(r) /\ r.subtotal = Rs(85, 0)

IsScenario2(r) == ScenarioItems(r) /\ r.subtotal = Rs(90, 0)

Dated(r) == r.date.kind \in { "dateOnly", "dateTime" }

\* the date lies more than a day after the current time
FutureDated(r) == Dated(r) /\ now - DateParse(r.date, tz).time < -24

\* the date draws no warning: it is unparseable text, or at most 365 days
\* old with a local hour of 6 or later
QuietDate(r) ==
    \/ r.date.kind = "invalid"
    \/ /\ Dated(r)
       /\ now - DateParse(r.date, tz).time <= 365 * 24
       /\ getHours(DateParse(r.date, tz), tz) >= 6

AllFlagsTrue(v) ==
    DOMAIN v.algorithmResults = Flags /\ \A f \in Flags : v.algorithmResults[f]

----------------------------------------------------------------------------
(* Scenario 4: Receipts dated around the current day, at every hour *)

\* the state after construction, in a process running in one of the zones
InitIn(zones) ==
    /\ this = ValidationService
    /\ tz \in zones
    /\ lowDeduction \in 1..MaxLowDeduction
    /\ pc = "idle"
    /\ path = "normal"
    /\ billData = DefaultReceipt
    /\ arg = DefaultReceipt
    /\ now = Today * 24
    /\ result = NewValidation
    /\ prevResult = NewValidation
    /\ parser = BillParser
    /\ rawText = [type |-> "undefined"]
    /\ parsed = NoResult
    /\ simple = NotCalled
    /\ ocr = OCRService
    /\ workers = << >>
    /\ calls = [call \in Calls |-> NotStarted]

\* a caller validates one of the Receipts at one of the times
ValidateFrom(receipts, clocks) ==
    /\ pc = "idle"
    /\ \E receipt \in receipts, clock \in clocks :
        \E out \in { validateBill(this, receipt, clock, tz, lowDeduction) } :
        /\ this' = out.this
        /\ billData' = out.billData
        /\ arg' = receipt
        /\ now' = clock
        /\ result' = out.validation
        /\ prevResult' = NewValidation
        /\ pc' = "returned"
        /\ path' = Path(out)
        /\ UNCHANGED <<tz, lowDeduction, parser, rawText, parsed, simple, ocrVars>>

\* the Receipt of Scenario 1
ScenarioReceipt ==
    [ date |-> [kind |-> "empty", day |-> 0, hour |-> 0],
      items |-> << [name |-> << "B", "e", "e", "r" >>, quantity |-> 1,
                    unitPrice |-> Rs(85, 0), price |-> Rs(85, 0)] >>,
      subtotal |-> Rs(85, 0), tax |-> Rs(4, 25), taxRate |-> Rs(5, 0),
      discount |-> 0, total |-> Rs(89, 25) ]

\* how many days before and after today a Receipt is dated
MaxDayShift == 2

DatedReceipts ==
    { [ScenarioReceipt EXCEPT !.date = [kind |-> "dateOnly", day |-> d, hour |-> 0]] :
        d \in (Today - MaxDayShift)..(Today + 1 + MaxDayShift) }

\* every hour of today and tomorrow (UTC)
DayClocks == { Today * 24 + h : h \in 0..47 }

DateZones == { -5, 0, 5 }

InitDate == InitIn(DateZones)

ValidateDated == ValidateFrom(DatedReceipts, DayClocks)

NextDate == ValidateDated \/ ValidateAgain \/ OtherCall

SpecDate == InitDate /\ [][NextDate]_vars

\* the calendar day of the current time in the process's zone
LocalDay(clock, zone) == (clock + zone) \div 24

\* the Receipt carries tomorrow's calendar date as a date-only string
DatedTomorrow ==
    pc = "returned" /\ arg.date.kind = "dateOnly"
      /\ arg.date.day = LocalDay(now, tz) + 1

FutureDateError ==
    Issue("DATE_ERROR", "high", << "date" >>, "Bill date is in the future")

HasError(v, issue) == \E i \in 1..Len(v.errors) : v.errors[i] = issue

\* C11 as claimed: for a Receipt dated tomorrow (date-only) validateBill
\* appends a high error of type FUTURE_DATE and returns isValid = false, at
\* every current time of day.
C11_TomorrowAsClaimed ==
    DatedTomorrow =>
        /\ \E i \in 1..Len(result.errors) :
              /\ result.errors[i].type = "FUTURE_DATE"
              /\ result.errors[i].severity = "high"
        /\ result.isValid = FALSE

\* C11 amended: for the Scenario-1 Receipt dated tomorrow (date-only, read as
\* UTC midnight) the future-date error is a high DATE_ERROR, never a
\* FUTURE_DATE, and it is appended exactly when the current time is more than
\* 24 hours before that midnight, which is when the zone is ahead of UTC and
\* the local hour is below the offset; otherwise there is no error and
\* isValid = true.
C11_Tomorrow ==
    DatedTomorrow =>
        /\ "FUTURE_DATE" \notin Types(result.errors)
        /\ HasError(result, FutureDateError) <=> (now + tz) % 24 < tz
        /\ HasError(result, FutureDateError) <=> now - arg.date.day * 24 < -24
        /\ result.isValid <=> ~HasError(result, FutureDateError)
        /\ result.isValid <=> result.errors = << >>

C11_Witness ==
    DatedTomorrow /\ tz = 0 /\ result.isValid /\ result.errors = << >>

C11_WitnessAhead ==
    DatedTomorrow /\ tz > 0 /\ HasError(result, FutureDateError)

----------------------------------------------------------------------------
(* Scenario 5: two items, validated as they are and with the second renamed *)

Rice == << "R", "i", "c", "e" >>

DupNames ==
    { Rice, toLowerCase(Rice), << " " >> \o toLowerCase(Rice),
      << "M", "i", "l", "k" >> }

DupUnitPrices == { Rs(40, 0), Rs(45, 0) }

DupItems ==
    { [name |-> n, quantity |-> 1, unitPrice |-> p, price |-> p] :
        n \in DupNames, p \in DupUnitPrices }

\* a Receipt of two items: consistent, or with every amount check failing
DupReceipts ==
    { [ date |-> [kind |-> "empty", day |-> 0, hour |-> 0],
        items |-> items,
        subtotal |-> IF sound THEN items[1].price + items[2].price ELSE Rs(1, 0),
        tax |-> IF sound THEN 0 ELSE Rs(4, 25),
        taxRate |-> 0, discount |-> 0,
        total |-> IF sound THEN items[1].price + items[2].price ELSE Rs(-5, 0) ] :
        items \in [1..2 -> DupItems], sound \in BOOLEAN }

\* a name no item of the pool has
NewName == << "D", "a", "l" >>

RenameSecond(receipt) == [receipt EXCEPT !.items[2].name = NewName]

InitDup == InitIn(Zones)

ValidateDup == ValidateFrom(DupReceipts, Clocks)

\* the caller validates the same Receipt with the second item renamed
ValidateRenamed ==
    /\ pc = "returned"
    /\ Has(arg, "items") /\ Len(arg.items) = 2
    /\ \E out \in { validateBill(this, RenameSecond(arg), now, tz, lowDeduction) } :
        /\ this' = out.this
        /\ billData' = out.billData
        /\ result' = out.validation
        /\ prevResult' = result
        /\ pc' = "renamed"
        /\ path' = Path(out)
        /\ UNCHANGED <<tz, lowDeduction, arg, now, parser, rawText, parsed, simple, ocrVars>>

NextDup == ValidateDup \/ ValidateRenamed

SpecDup == InitDup /\ [][NextDup]_vars

\* prevResult is the result for the Receipt as given, result the one for the
\* renamed Receipt
Normalised(name) == trim(toLowerCase(name))

DuplicatePair ==
    pc = "renamed" /\ Normalised(arg.items[1].name) = Normalised(arg.items[2].name)

CountType(issues, type) ==
    Cardinality({ i \in 1..Len(issues) : issues[i].type = type })

\* the two names are equal after lower-casing alone and the unit prices differ
PriceClash ==
    /\ toLowerCase(arg.items[1].name) = toLowerCase(arg.items[2].name)
    /\ arg.items[1].unitPrice # arg.items[2].unitPrice

\* C12 as claimed: two items with names equal after lower-casing and trimming
\* draw exactly one medium DUPLICATE_ITEMS warning, a score 5 below that of
\* the Receipt with the second item renamed, and the same isValid.
C12_DuplicateAsClaimed ==
    DuplicatePair =>
        /\ CountType(prevResult.warnings, "DUPLICATE_ITEMS") = 1
        /\ \A i \in 1..Len(prevResult.warnings) :
              prevResult.warnings[i].type = "DUPLICATE_ITEMS"
                  => prevResult.warnings[i].severity = "medium"
        /\ prevResult.confidenceScore = result.confidenceScore - 5
        /\ prevResult.isValid = result.isValid

\* C12 amended: such a pair draws exactly one medium DUPLICATE_ITEMS warning
\* and leaves isValid as without the duplicate; the score is that of the
\* renamed Receipt less 5, or less 10 when the names are equal after
\* lower-casing alone and the unit prices differ (a medium PRICE_OUTLIER
\* warning is added), and never below 0.
C12_Duplicate ==
    DuplicatePair =>
        /\ CountType(prevResult.warnings, "DUPLICATE_ITEMS") = 1
        /\ \A i \in 1..Len(prevResult.warnings) :
              prevResult.warnings[i].type = "DUPLICATE_ITEMS"
                  => prevResult.warnings[i].severity = "medium"
        /\ CountType(prevResult.warnings, "PRICE_OUTLIER")
              = IF PriceClash THEN 1 ELSE 0
        /\ prevResult.confidenceScore =
              Max(0, 100 - Deductions(result) - (IF PriceClash THEN 10 ELSE 5))
        /\ (Deductions(result) <= 90) =>
              prevResult.confidenceScore =
                  result.confidenceScore - (IF PriceClash THEN 10 ELSE 5)
        /\ prevResult.isValid = result.isValid
        /\ prevResult.errors = result.errors

C12_Witness ==
    DuplicatePair /\ ~PriceClash /\ arg.items[1].name # arg.items[2].name
      /\ arg.items[1].unitPrice # arg.items[2].unitPrice
      /\ result.isValid /\ prevResult.confidenceScore = result.confidenceScore - 5

C12_WitnessClash ==
    DuplicatePair /\ PriceClash /\ result.isValid
      /\ prevResult.confidenceScore = result.confidenceScore - 10

C12_WitnessClamped ==
    DuplicatePair /\ prevResult.confidenceScore = 0 /\ result.confidenceScore = 0

----------------------------------------------------------------------------
(* The published pass/fail flags *)

FlagSet(v, flag) == flag \in DOMAIN v.algorithmResults /\ v.algorithmResults[flag]

\* C18: in every normally returned result mathVerification is false when the
\* math check appended a MATH_ERROR (subtotal or per-item), taxValidation is
\* false when the tax check appended a TAX_ERROR (rate or amount), and
\* dateValidation is false when the date check appended a future-date error.
C18_FlagsReflectErrors ==
    (Returned /\ path = "normal") =>
        /\ "MATH_ERROR" \in Types(result.errors)
              => ~FlagSet(result, "mathVerification")
        /\ "TAX_ERROR" \in Types(result.errors)
              => ~FlagSet(result, "taxValidation")
        /\ HasError(result, FutureDateError)
              => ~FlagSet(result, "dateValidation")

----------------------------------------------------------------------------
(* The math check on and around its tolerance *)

MathItems ==
    { [name |-> Rice, quantity |-> 1, unitPrice |-> Rs(85, 1), price |-> Rs(85, 1)],
      [name |-> Rice, quantity |-> 1, unitPrice |-> Rs(85, 0), price |-> Rs(85, 0)],
      [name |-> Rice, quantity |-> 1, unitPrice |-> Rs(0, 2), price |-> Rs(0, 2)],
      [name |-> Rice, quantity |-> 3, unitPrice |-> Rs(0, 3), price |-> Rs(0, 10)],
      [name |-> Rice, quantity |-> 2, unitPrice |-> Rs(40, 0), price |-> Rs(80, 1) + 1],
      [name |-> Rice, quantity |-> 1, unitPrice |-> Rs(5, 0), price |-> Rs(5, 2)] }

MaxMathItems == 2

MathItemLists == UNION { [1..n -> MathItems] : n \in 0..MaxMathItems }

Prices(items) == [i \in 1..Len(items) |-> items[i].price]

\* how far, in thousandths, the printed subtotal lies from the sum of the prices
SubtotalShifts == { -11, -10, 0, 10, 11 }

MathReceipts ==
    { [ date |-> [kind |-> "empty", day |-> 0, hour |-> 0], items |-> items,
        subtotal |-> SumSeq(Prices(items)) + d, tax |-> 0, taxRate |-> 0,
        discount |-> 0, total |-> SumSeq(Prices(items)) + d ] :
        items \in MathItemLists, d \in SubtotalShifts }

InitMath == InitIn(Zones)

ValidateMath == ValidateFrom(MathReceipts, Clocks)

NextMath == ValidateMath \/ ValidateAgain

SpecMath == InitMath /\ [][NextMath]_vars

\* |sum of the item prices - subtotal| of the Receipt, in thousandths
SubtotalGap(r) == Abs(SumSeq(Prices(r.items)) - r.subtotal)

SubtotalError ==
    Issue("MATH_ERROR", "high", << "subtotal" >>, "Subtotal mismatch")

\* C14: a difference of exactly 0.01 between the sum of the item prices and
\* the subtotal draws no MATH_ERROR and sets mathVerification; a difference of
\* 0.011 draws a MATH_ERROR.
C14_ToleranceBoundary ==
    (Returned /\ path = "normal" /\ Has(arg, "items")) =>
        /\ SubtotalGap(arg) = tolerance =>
              /\ "MATH_ERROR" \notin Types(result.errors)
              /\ FlagSet(result, "mathVerification")
        /\ SubtotalGap(arg) = tolerance + 1 => HasError(result, SubtotalError)

\* |quantity * unitPrice - price| of an item, in thousandths
ItemGap(item) == Abs(item.quantity * item.unitPrice - item.price)

MathErrors(v) == SelectSeq(v.errors, LAMBDA e : e.type = "MATH_ERROR")

\* the items of the Receipt the item check is to report, in item order
Mispriced(r) ==
    SelectSeq([i \in 1..Len(r.items) |-> i],
              LAMBDA i : ItemGap(r.items[i]) > tolerance)

\* C19: the math check appends a high MATH_ERROR on 'subtotal' iff |sum of the
\* prices - subtotal| > 0.01, then one medium MATH_ERROR per item with
\* |quantity * unitPrice - price| > 0.01, in item order with field
\* items[i].price; no items and subtotal 0 give no MATH_ERROR.
C19_MathErrors ==
    (Returned /\ path = "normal" /\ Has(arg, "items")) =>
        /\ MathErrors(result) =
              (IF SubtotalGap(arg) > tolerance THEN << SubtotalError >> ELSE << >>)
              \o [k \in 1..Len(Mispriced(arg)) |->
                     Issue("MATH_ERROR", "medium", ItemField(Mispriced(arg)[k] - 1),
                           "Item price mismatch")]
        /\ (arg.items = << >> /\ arg.subtotal = 0) => MathErrors(result) = << >>

----------------------------------------------------------------------------
(* The tax check: rates on, between and off the valid rates *)

TaxSubtotals == { 0, Rs(1, 0), Rs(10, 0), Rs(50, 0), Rs(85, 0), Rs(90, 0), Rs(100, 0) }

TaxTaxes == { 0, Rs(0, 1), Rs(0, 49), Rs(4, 25), Rs(5, 50), Rs(8, 50) }

\* one item that makes up the subtotal, and the total that follows
TaxReceipts ==
    { [ date |-> [kind |-> "empty", day |-> 0, hour |-> 0],
        items |-> << [name |-> Rice, quantity |-> 1,
                      unitPrice |-> subtotal, price |-> subtotal] >>,
        subtotal |-> subtotal, tax |-> tax, taxRate |-> 0, discount |-> 0,
        total |-> subtotal + tax ] :
        subtotal \in TaxSubtotals, tax \in TaxTaxes }

InitTax == InitIn(Zones)

ValidateTax == ValidateFrom(TaxReceipts, Clocks)

NextTax == ValidateTax \/ ValidateAgain

SpecTax == InitTax /\ [][NextTax]_vars

\* the member of the valid rates nearest to tax / subtotal * 100, the smaller
\* one on a tie (every rate is equally far from an infinite rate)
NearestRate(r) ==
    CHOOSE rate \in { 0, 5, 12, 18, 28 } :
        \A other \in { 0, 5, 12, 18, 28 } :
            \/ r.subtotal = 0 /\ rate <= other
            \/ r.subtotal # 0 /\ RateGap(rate, r) < RateGap(other, r)
            \/ r.subtotal # 0 /\ RateGap(rate, r) = RateGap(other, r) /\ rate <= other

\* |actualRate - closest| > 0.5
RateOff(r) ==
    r.subtotal = 0 \/ 2 * RateGap(NearestRate(r), r) > Abs(r.subtotal)

\* |subtotal * closest / 100 - tax| > 0.01
AmountOff(r) == RateGap(NearestRate(r), r) > 100 * tolerance

TaxErrors(v) == SelectSeq(v.errors, LAMBDA e : e.type = "TAX_ERROR")

RateError == Issue("TAX_ERROR", "medium", << "tax" >>, "Invalid tax rate")

AmountError == Issue("TAX_ERROR", "medium", << "tax" >>, "Tax calculation error")

\* C20: with tax # 0 a medium TAX_ERROR is appended iff the actual rate is
\* more than 0.5 from the nearest valid rate (the smaller on a tie), and a
\* second medium TAX_ERROR iff |subtotal * nearest / 100 - tax| > 0.01, each
\* independently of the other.
C20_TaxErrors ==
    (Returned /\ path = "normal" /\ arg.tax # 0) =>
        TaxErrors(result) =
            (IF RateOff(arg) THEN << RateError >> ELSE << >>)
            \o (IF AmountOff(arg) THEN << AmountError >> ELSE << >>)

----------------------------------------------------------------------------
(* Parsing raw texts and validating what the parser returns *)

\* the lines a text is made of
Lines ==
    { "", " Thank  you ", "----", "Item", "Rice ₹85.00", "2 x Milk ₹5.50",
      "0 x Dal ₹10.00", "GST: ₹4.25", "Total: ₹89.25", "Coffee ₹50.00",
      "Amount: ₹85.00" }

MaxLines == 2

\* a string has at least one line (the empty string has one empty line)
Texts ==
    { [type |-> "string", lines |-> lines] :
        lines \in UNION { [1..n -> Lines] : n \in 1..MaxLines } }

NonStrings == { [type |-> "null"], [type |-> "undefined"], [type |-> "number"] }

\* what other callers parse in between
OtherTexts ==
    { [type |-> "string", lines |-> << "Rice ₹85.00", "Total: ₹89.25" >>],
      [type |-> "null"] }

InitParse == InitIn({ 0 })

\* a caller parses one of the values
ParseFrom(texts) ==
    /\ pc \in { "idle", "shared" }
    /\ \E text \in texts :
        \E out \in { parseBillData(parser, text) } :
        /\ parser' = out.this
        /\ rawText' = text
        /\ parsed' = [thrown |-> out.thrown, name |-> out.name,
                      message |-> out.message, billData |-> out.billData,
                      shared |-> pc = "shared"]
        /\ pc' = "parsed"
        /\ UNCHANGED <<this, tz, lowDeduction, path, billData, arg, now, result,
                       prevResult, simple, ocrVars>>

\* a caller parses a value
ParseBillData == ParseFrom(Texts \cup NonStrings)

\* another caller parses a value of its own on the shared instance, before the
\* caller does (parsed.shared records that it did)
OtherParse ==
    /\ pc = "idle"
    /\ \E text \in OtherTexts :
        \E out \in { parseBillData(parser, text) } :
        /\ parser' = out.this
        /\ pc' = "shared"
        /\ UNCHANGED <<this, tz, lowDeduction, path, billData, arg, now, result,
                       prevResult, rawText, parsed, simple, ocrVars>>

\* the caller validates the Receipt the parser returned
ValidateParsed ==
    /\ pc = "parsed"
    /\ ~parsed.thrown
    /\ \E out \in { validateBill(this, parsed.billData, Today * 24, tz, lowDeduction) } :
        /\ this' = out.this
        /\ billData' = out.billData
        /\ arg' = parsed.billData
        /\ now' = Today * 24
        /\ result' = out.validation
        /\ prevResult' = NewValidation
        /\ pc' = "returned"
        /\ path' = Path(out)
        /\ UNCHANGED <<tz, lowDeduction, parser, rawText, parsed, simple, ocrVars>>

NextParse == ParseBillData \/ OtherParse \/ ValidateParsed \/ OtherCall

SpecParse == InitParse /\ [][NextParse]_vars

----------------------------------------------------------------------------
(* Properties of parseBillData and of validating its output *)

\* the caller's parseBillData call on a string has ended
ParsedString == pc \in { "parsed", "returned" } /\ rawText.type = "string"

\* validateBill has returned on the Receipt parsed from the caller's string
ValidatedString == pc = "returned" /\ rawText.type = "string"

\* a line of the text names a total or an amount
TotalLinePrinted ==
    \E i \in 1..Len(rawText.lines) :
        IncludesSome(toLowerCase(Chars(rawText.lines[i])), { "total", "amount" })

\* no line of the text holds a digit, so no price, quantity or rate is printed
NothingPrinted ==
    \A i \in 1..Len(rawText.lines) :
        \A k \in 1..Len(rawText.lines[i]) : ~IsDigit(Chars(rawText.lines[i])[k])

Warned(v, type) == \E i \in 1..Len(v.warnings) : v.warnings[i].type = type

CheckGroups == { "MATH_ERROR", "TAX_ERROR", "TOTAL_ERROR", "DATE_ERROR" }

\* C13: for a text with no recognizable item line the parser returns no item,
\* subtotal and total 0 unless a total or amount line is printed, and
\* validateBill on that Receipt appends a warning for each of the math, tax,
\* total and date checks and no error.
C13_NoItemLines ==
    (ValidatedString /\ parsed.billData.items = << >>) =>
        /\ ~TotalLinePrinted => parsed.billData.subtotal = 0 /\ parsed.billData.total = 0
        /\ path = "normal"
        /\ \A type \in CheckGroups : Warned(result, type)
        /\ result.errors = << >>

\* what extractFinancialTotals reads from the printed lines of the text
ReadTotals ==
    extractFinancialTotals(BillParser, preprocessText(rawText).lines,
        [ parsed.billData EXCEPT !.subtotal = 0, !.tax = 0, !.taxRate = 0,
                                 !.discount = 0, !.total = 0 ]).billData

\* subtotal and total are computed by calculateDerivedValues, not read
Derived == ReadTotals.subtotal = 0 /\ ReadTotals.total = 0

EmptyReceipt ==
    [ date |-> [kind |-> "empty", day |-> 0, hour |-> 0], items |-> << >>,
      subtotal |-> 0, tax |-> 0, taxRate |-> 0, discount |-> 0, total |-> 0 ]

ParseFailed == "Bill parsing failed: "

C16_WitnessEmpty ==
    /\ pc = "parsed" /\ rawText = [type |-> "string", lines |-> << "" >>]
    /\ ~parsed.thrown /\ parsed.billData = EmptyReceipt

Outcome(out) ==
    [ thrown |-> out.thrown, name |-> out.name, message |-> out.message,
      billData |-> out.billData ]

----------------------------------------------------------------------------
(* The total check: totals on, next to and off subtotal + tax - discount *)

TotalShifts == { -Rs(0, 2), -Rs(0, 1), 0, Rs(0, 1), Rs(0, 2) }

\* subtotal, tax, discount and shift; the largest subtotal comes without tax
TotalCases ==
    { c \in { 0, Rs(10, 0), Rs(85, 0), Rs(100000, 0) }
             \X { 0, Rs(0, 49), Rs(4, 25) } \X { 0, Rs(5, 0) } \X TotalShifts :
        c[1] = Rs(100000, 0) => c[2] = 0 }

\* one item that makes up the subtotal; the total is the computed one, shifted
TotalReceipts ==
    { [ date |-> [kind |-> "empty", day |-> 0, hour |-> 0],
        items |-> << [name |-> Rice, quantity |-> 1,
                      unitPrice |-> subtotal, price |-> subtotal] >>,
        subtotal |-> subtotal, tax |-> tax, taxRate |-> 0, discount |-> discount,
        total |-> subtotal + tax - discount + shift ] :
      <<subtotal, tax, discount, shift>> \in TotalCases }

InitTotal == InitIn(Zones)

ValidateTotal == ValidateFrom(TotalReceipts, Clocks)

NextTotal == ValidateTotal \/ ValidateAgain

SpecTotal == InitTotal /\ [][NextTotal]_vars

\* |subtotal + tax - discount - total| > 0.01
TotalOff(r) == Abs(r.subtotal + r.tax - r.discount - r.total) > tolerance

\* the issues of the total check: those of type TOTAL_ERROR on field 'total'
TotalIssues(issues) ==
    SelectSeq(issues, LAMBDA e : e.type = "TOTAL_ERROR" /\ e.field = << "total" >>)

TotalError == Issue("TOTAL_ERROR", "high", << "total" >>, "Total calculation error")

NegativeError ==
    Issue("TOTAL_ERROR", "high", << "total" >>, "Total amount cannot be negative")

HighWarning == Issue("TOTAL_ERROR", "low", << "total" >>, "Very high total amount")

\* C21: a high TOTAL_ERROR on 'total' is appended and totalCheck stays false
\* iff |subtotal + tax - discount - total| > 0.01 (else totalCheck is true); a
\* further high TOTAL_ERROR is appended iff total < 0 and a low warning iff
\* total > 100000, whatever the flag.
C21_TotalErrors ==
    (Returned /\ path = "normal") =>
        /\ TotalIssues(result.errors) =
               (IF TotalOff(arg) THEN << TotalError >> ELSE << >>)
               \o (IF arg.total < 0 THEN << NegativeError >> ELSE << >>)
        /\ TotalIssues(result.warnings) =
               IF arg.total > Rs(100000, 0) THEN << HighWarning >> ELSE << >>
        /\ result.algorithmResults.totalCheck <=> ~TotalOff(arg)

----------------------------------------------------------------------------
(* The date check: dates around one day ahead and around maxBillAge days ago *)

\* date-only strings (UTC midnight), date-time strings (local time) and a
\* string that is no date (daysDifference is NaN)
AgedDates ==
    { [kind |-> "dateOnly", day |-> Today + d, hour |-> 0] :
        d \in { -366, -365, -364, 0, 1, 2 } }
    \cup { [kind |-> "dateTime", day |-> Today + d, hour |-> 1] : d \in { -365, 1 } }
    \cup { [kind |-> "invalid", day |-> 0, hour |-> 0] }

AgedReceipts == { [ScenarioReceipt EXCEPT !.date = date] : date \in AgedDates }

\* the first hours of today and its last (UTC)
AgeClocks == { Today * 24 + h : h \in { 0, 1, 2, 23 } }

InitAge == InitIn(DateZones)

ValidateAged == ValidateFrom(AgedReceipts, AgeClocks)

NextAge == ValidateAged \/ ValidateAgain

SpecAge == InitAge /\ [][NextAge]_vars

\* currentDate - billDate of the call, in hours
HoursDifference == now - DateParse(arg.date, tz).time

OldDateWarning == Issue("OLD_DATE", "low", << "date" >>, "Bill is very old")

DateErrors(v) ==
    SelectSeq(v.errors, LAMBDA e : e.type = "DATE_ERROR" /\ e.severity = "high")

OldDateWarnings(v) == SelectSeq(v.warnings, LAMBDA w : w.type = "OLD_DATE")

\* C22: with a date present and daysDiff = (now - billDate) in days, one high
\* error is appended iff daysDiff < -1 and one low OLD_DATE warning iff
\* daysDiff > 365, never both; from -1 to 365 inclusive neither is appended.
C22_DateBounds ==
    /\ (Returned /\ path = "normal" /\ arg.date.kind = "invalid") =>
           DateErrors(result) = << >> /\ OldDateWarnings(result) = << >>
    /\ (Returned /\ path = "normal" /\ Dated(arg)) =>
           /\ DateErrors(result) =
                  IF HoursDifference < -1 * 24 THEN << FutureDateError >> ELSE << >>
           /\ OldDateWarnings(result) =
                  IF HoursDifference > 365 * 24 THEN << OldDateWarning >> ELSE << >>
           /\ DateErrors(result) = << >> \/ OldDateWarnings(result) = << >>
           /\ (HoursDifference >= -1 * 24 /\ HoursDifference <= 365 * 24) =>
                  DateErrors(result) = << >> /\ OldDateWarnings(result) = << >>

\* a bill dated exactly 365 days before the current time draws no warning
C22_Witness ==
    /\ Returned /\ path = "normal" /\ Dated(arg)
    /\ HoursDifference = 365 * 24
    /\ OldDateWarnings(result) = << >> /\ DateErrors(result) = << >>

\* a bill dated exactly one day after the current time draws no error
C22_WitnessAhead ==
    /\ Returned /\ path = "normal" /\ Dated(arg)
    /\ HoursDifference = -1 * 24
    /\ DateErrors(result) = << >>

\* one hour beyond either bound the error, or the warning, is appended
C22_WitnessBeyond ==
    /\ Returned /\ path = "normal" /\ Dated(arg)
    /\ \/ HoursDifference = -1 * 24 - 1 /\ DateErrors(result) # << >>
       \/ HoursDifference = 365 * 24 + 1 /\ OldDateWarnings(result) # << >>

----------------------------------------------------------------------------
(* The checks one at a time, each on a new validation object *)

\* Receipts without the items property, without items and with one item
FallbackReceipts ==
    { Receipt(a, items) :
        a \in Amounts, items \in { << >> } \cup { << item >> : item \in ItemPool } }
    \cup Amounts

InitFallback == InitIn(Zones)

\* one check has run on the Receipt: pc names it, result is the validation
\* object as the check leaves it
Checked(name, receipt, clock, out) ==
    /\ pc = "idle"
    /\ pc' = name
    /\ arg' = receipt
    /\ now' = clock
    /\ billData' = out.billData
    /\ result' = out.validation
    /\ this' = out.this
    /\ UNCHANGED <<tz, lowDeduction, path, prevResult, parser, rawText, parsed, simple, ocrVars>>

CheckMath ==
    \E receipt \in FallbackReceipts :
        Checked("math", receipt, now, validateMathematicalAccuracy(Call(this, receipt)))

CheckTax ==
    \E receipt \in FallbackReceipts :
        Checked("tax", receipt, now, validateTaxCalculations(Call(this, receipt)))

CheckTotal ==
    \E receipt \in FallbackReceipts :
        Checked("total", receipt, now, validateTotalAmount(Call(this, receipt)))

CheckDate ==
    \E receipt \in FallbackReceipts, clock \in Clocks :
        Checked("date", receipt, clock,
                validateDateLogic(Call(this, receipt), clock, tz))

CheckPatterns ==
    \E receipt \in FallbackReceipts :
        Checked("patterns", receipt, now, analyzePatterns(Call(this, receipt)))

NextFallback == CheckMath \/ CheckTax \/ CheckTotal \/ CheckDate \/ CheckPatterns

SpecFallback == InitFallback /\ [][NextFallback]_vars

\* the flag each check publishes
FlagOf ==
    [ math |-> "mathVerification", tax |-> "taxValidation", total |-> "totalCheck",
      date |-> "dateValidation", patterns |-> "patternAnalysis" ]

\* the check's handler pushed its 'Unable to ...' warning
HandlerWarned ==
    \E i \in 1..Len(result.warnings) :
        /\ Len(result.warnings[i].message) > 9
        /\ SubSeq(result.warnings[i].message, 1, 9) = "Unable to"

\* one low warning, no error, and the flag set
PassedWithWarning(flag) ==
    /\ Len(result.warnings) = 1
    /\ result.warnings[1].severity = "low"
    /\ result.errors = << >>
    /\ result.algorithmResults[flag]

\* C23: with tax = 0 the tax check appends one low warning and no error and
\* sets taxValidation; with an empty date the date check appends one low
\* warning and no error and sets dateValidation; and whenever a check's
\* handler has pushed its 'Unable to ...' warning, that check's flag is true.
C23_Fallbacks ==
    /\ (pc = "tax" /\ arg.tax = 0) => PassedWithWarning("taxValidation")
    /\ (pc = "date" /\ arg.date.kind = "empty") => PassedWithWarning("dateValidation")
    /\ (pc \in DOMAIN FlagOf /\ HandlerWarned) => result.algorithmResults[FlagOf[pc]]

----------------------------------------------------------------------------
(* Deriving the values that are not printed *)

\* item lines and lines that print a subtotal, a tax, a rate, a discount, a total
DeriveLines ==
    { "Rice ₹85.00", "Milk ₹5.50", "Amount: ₹85.00", "Amount: ₹80.00",
      "GST: ₹4.25", "GST: ₹4.26", "GST 5%: ₹4.25", "Discount: ₹5.00",
      "Total: ₹89.25" }

DeriveTexts ==
    { [type |-> "string", lines |-> lines] :
        lines \in UNION { [1..n -> DeriveLines] : n \in 1..MaxLines } }

ParseDerived == ParseFrom(DeriveTexts)

NextDerive == ParseDerived \/ OtherParse

SpecDerive == InitParse /\ [][NextDerive]_vars

ItemSum(items) == SumSeq([i \in 1..Len(items) |-> items[i].price])

\* what the parser returns for subtotal and total, given what it read
DerivedTotals ==
    LET b == parsed.billData IN
    /\ b.subtotal = IF ReadTotals.subtotal = 0 /\ b.items # << >>
                    THEN ItemSum(b.items) ELSE ReadTotals.subtotal
    /\ b.total = IF ReadTotals.total = 0
                 THEN b.subtotal + b.tax - b.discount ELSE ReadTotals.total
    /\ b.tax = ReadTotals.tax
    /\ b.discount = ReadTotals.discount

\* no rate was read, and subtotal and tax are positive
RateDerived ==
    ReadTotals.taxRate = 0 /\ parsed.billData.subtotal > 0 /\ parsed.billData.tax > 0

\* C24 as claimed: an unread subtotal is the sum of the item prices, an
\* unread total is subtotal + tax - discount, a printed subtotal or total is
\* kept, and an unread taxRate with positive subtotal and tax is
\* tax / subtotal * 100.
C24_DerivedAsClaimed ==
    (pc = "parsed" /\ ~parsed.thrown) =>
        /\ DerivedTotals
        /\ RateDerived =>
              parsed.billData.taxRate * parsed.billData.subtotal
                  = 100 * 1000 * parsed.billData.tax

\* C24: as claimed for subtotal and total; the derived taxRate is
\* tax / subtotal * 100 rounded to 2 decimals.
C24_Derived ==
    (pc = "parsed" /\ ~parsed.thrown) =>
        /\ DerivedTotals
        /\ RateDerived =>
              /\ parsed.billData.taxRate % 10 = 0
              /\ Abs(parsed.billData.taxRate * parsed.billData.subtotal
                     - 100 * 1000 * parsed.billData.tax)
                    <= 5 * parsed.billData.subtotal

\* an item and a tax of 4.26 on 85.00: the rate 5.0117... is returned as 5.01
C24_Witness ==
    /\ pc = "parsed" /\ ~parsed.thrown
    /\ parsed.billData.items # << >> /\ ReadTotals.subtotal = 0 /\ ReadTotals.total = 0
    /\ RateDerived
    /\ parsed.billData.subtotal = Rs(85, 0) /\ parsed.billData.tax = Rs(4, 26)
    /\ parsed.billData.total = Rs(89, 26)
    /\ parsed.billData.taxRate = Rs(5, 1)

\* a printed subtotal that is not the sum of the items is kept
C24_WitnessPrinted ==
    /\ pc = "parsed" /\ ~parsed.thrown
    /\ parsed.billData.items # << >>
    /\ ReadTotals.subtotal = Rs(80, 0) /\ parsed.billData.subtotal = Rs(80, 0)
    /\ ItemSum(parsed.billData.items) = Rs(85, 0)

----------------------------------------------------------------------------
(* The item section: separators, headers, item lines and total lines *)

SectionLines ==
    { "----", "====", "Item Qty Amount", "Rice ₹85.00", "Milk ₹5.50",
      "Total: ₹90.50", "Thank you" }

SectionTexts ==
    { [type |-> "string", lines |-> lines] :
        lines \in UNION { [1..n -> SectionLines] : n \in 1..MaxLines } }

ParseSection == ParseFrom(SectionTexts)

NextSection == ParseSection \/ OtherParse

SpecSection == InitParse /\ [][NextSection]_vars

\* the lines preprocessText hands to extractItems
CleanLines == preprocessText(rawText).lines

StartsSection(line) ==
    \/ IncludesSome(toLowerCase(line), itemStartKeywords)
    \/ looksLikeItemLine(BillParser, line).value

EndsSection(line) ==
    /\ IncludesSome(toLowerCase(line), itemEndKeywords)
    /\ ~looksLikeItemLine(BillParser, line).value

SectionStarts == { i \in 1..Len(CleanLines) : StartsSection(CleanLines[i]) }

\* the first line that starts the section
SectionStart == Least(SectionStarts)

\* the first line after the start line that ends the section; the line after
\* the last when there is none
SectionEnd ==
    Least({ j \in (SectionStart + 1)..Len(CleanLines) : EndsSection(CleanLines[j]) }
          \cup { Len(CleanLines) + 1 })

\* C25: the item section starts at the first line with a start keyword or
\* that looks like an item line and ends at the first line strictly after it
\* that has an end keyword and does not look like an item line; the items
\* returned are those of the lines from the start up to the end, so the item
\* lines that follow a separator or a header are parsed.
C25_SectionBounds ==
    (pc = "parsed" /\ ~parsed.thrown /\ SectionStarts # { }) =>
        parsed.billData.items =
            ItemsFrom(BillParser, CleanLines, SectionStart - 1, SectionEnd - 1).items

----------------------------------------------------------------------------
(* Item lines: a quantity marker or none, a name and a price *)

\* the marker as printed and the number it states (1 without a marker)
QuantityMarkers ==
    { [text |-> "", n |-> 1], [text |-> "0 x ", n |-> 0], [text |-> "0 pcs ", n |-> 0],
      [text |-> "1 x ", n |-> 1], [text |-> "2 x ", n |-> 2], [text |-> "3 pcs ", n |-> 3],
      [text |-> "4 x ", n |-> 4], [text |-> "7 x ", n |-> 7] }

\* the price as printed and its amount
PrintedPrices ==
    { [text |-> "1.00", amount |-> Rs(1, 0)], [text |-> "5.50", amount |-> Rs(5, 50)],
      [text |-> "10.00", amount |-> Rs(10, 0)], [text |-> "10.02", amount |-> Rs(10, 2)],
      [text |-> "85.00", amount |-> Rs(85, 0)] }

ItemCases ==
    { [ line |-> marker.text \o "Pen " \o Rupee \o price.text,
        quantity |-> marker.n, price |-> price.amount ] :
        marker \in QuantityMarkers, price \in PrintedPrices }

\* texts of one item line
ItemTexts == { [type |-> "string", lines |-> << case.line >>] : case \in ItemCases }

ParseItem == ParseFrom(ItemTexts)

NextItem == ParseItem \/ OtherParse \/ ValidateParsed

SpecItem == InitParse /\ [][NextItem]_vars

\* the item line that was parsed
ItemCase == CHOOSE case \in ItemCases : rawText.lines = << case.line >>

ItemParsed ==
    /\ pc \in { "parsed", "returned" } /\ ~parsed.thrown
    /\ parsed.billData.items # << >>

\* C26: every LineItem has a positive quantity (the marker's number, 1
\* without a marker), a price > 0 and a finite unitPrice that is
\* price / quantity rounded to 2 decimals; a marker of 0 yields no item of
\* quantity 0.
C26_ItemFields ==
    ItemParsed =>
        \A i \in 1..Len(parsed.billData.items) :
            LET item == parsed.billData.items[i] IN
            /\ item.quantity = ItemCase.quantity
            /\ item.quantity >= 1
            /\ item.price > 0
            /\ item.unitPrice # Infinity
            /\ item.unitPrice % 10 = 0
            /\ 2 * Abs(item.unitPrice * item.quantity - item.price) <= 10 * item.quantity

\* validateBill has returned on the Receipt parsed from an item line whose
\* quantity is at least 1
ItemValidated ==
    /\ pc = "returned" /\ ItemParsed
    /\ \A i \in 1..Len(arg.items) : arg.items[i].quantity >= 1

\* the per-item errors of validateMathematicalAccuracy
ItemErrors(v) ==
    SelectSeq(v.errors, LAMBDA e : e.type = "MATH_ERROR" /\ e.severity = "medium")

\* C27: for every LineItem of the parser with quantity q >= 1,
\* |q * unitPrice - price| <= 0.01, and the Receipt the parser built gets no
\* per-item MATH_ERROR from the validator.
C27_ItemsPass ==
    ItemValidated =>
        /\ \A i \in 1..Len(arg.items) :
              Abs(arg.items[i].quantity * arg.items[i].unitPrice - arg.items[i].price)
                  <= tolerance
        /\ ItemErrors(result) = << >>

----------------------------------------------------------------------------
(* Subtotal lines *)

SubtotalLines ==
    { "Subtotal: " \o Rupee \o "85.00", "Sub Total: " \o Rupee \o "86.00",
      "Sub-total: " \o Rupee \o "87.00", "Amount: " \o Rupee \o "88.00",
      "Subtotal tax: " \o Rupee \o "4.25", "Rice " \o Rupee \o "80.00",
      "GST: " \o Rupee \o "4.00", "Total: " \o Rupee \o "84.00" }

SubtotalTexts ==
    { [type |-> "string", lines |-> lines] :
        lines \in UNION { [1..n -> SubtotalLines] : n \in 1..MaxLines } }

ParseSubtotal == ParseFrom(SubtotalTexts)

NextSubtotal == ParseSubtotal \/ OtherParse

SpecSubtotal == InitParse /\ [][NextSubtotal]_vars

SubtotalLabels == { "subtotal", "sub total", "sub-total" }

\* the line is labelled as a subtotal, mentions no tax and prints a positive
\* price
SubtotalLabelled(line) ==
    /\ IncludesSome(toLowerCase(line), SubtotalLabels)
    /\ ~includes(toLowerCase(line), Chars("tax"))
    /\ extractPriceFromLine(BillParser, line).price \notin { << >>, << 0 >> }

\* the indices of the labelled lines of the parsed text
LabelledLines == { i \in 1..Len(CleanLines) : SubtotalLabelled(CleanLines[i]) }

LastLabelled == CHOOSE i \in LabelledLines : \A j \in LabelledLines : j <= i

\* C28: a line labelled 'subtotal', 'sub total' or 'sub-total' with a positive
\* price and no mention of tax sets Receipt.subtotal to that price in
\* extractFinancialTotals (the last such line of the text wins).
C28_SubtotalRead ==
    (ParsedString /\ LabelledLines # { }) =>
        ReadTotals.subtotal
            = extractPriceFromLine(BillParser, CleanLines[LastLabelled]).price[1]

----------------------------------------------------------------------------
(* The validateBill of server.js against the validateBill of the service *)

ServerRates == { 0, Rs(5, 0), Rs(18, 0) }

ServerTaxes == { 0, Rs(4, 25), Rs(4, 26), Rs(15, 30) }

\* Receipts dated yesterday with one item: the subtotal printed or 0.02
\* more, any of the rates and taxes, the total that follows or 1.00 more
ServerReceipts ==
    { [ date |-> [kind |-> "dateOnly", day |-> Today - 1, hour |-> 0],
        items |-> << [name |-> Rice, quantity |-> 1,
                      unitPrice |-> Rs(85, 0), price |-> Rs(85, 0)] >>,
        subtotal |-> Rs(85, 0) + off, tax |-> tax, taxRate |-> rate, discount |-> 0,
        total |-> Rs(85, 0) + off + tax + shift ] :
        off \in { 0, Rs(0, 2) }, tax \in ServerTaxes, rate \in ServerRates,
        shift \in { 0, Rs(1, 0) } }

ValidateServed == ValidateFrom(ServerReceipts, { Today * 24 })

\* the server validates the same Receipt at the same time
ServerValidateBill ==
    /\ pc = "returned"
    /\ ~simple.called
    /\ simple' = serverValidateBill(arg, now, tz)
    /\ UNCHANGED <<this, tz, lowDeduction, pc, path, billData, arg, now, result,
                   prevResult, parser, rawText, parsed, ocrVars>>

NextServer == ValidateServed \/ ServerValidateBill

SpecServer == InitIn(Zones) /\ [][NextServer]_vars

\* both validators have returned on the Receipt, whose date is valid
BothReturned ==
    /\ pc = "returned" /\ path = "normal"
    /\ simple.called /\ ~simple.thrown
    /\ ~DateParse(arg.date, tz).nan

\* C29: on a Receipt with a valid date every error of the simple validateBill
\* of server.js is reported with the same type by the validateBill of the
\* service, and when the service returns isValid = true so does the simple one.
C29_Subset ==
    BothReturned =>
        /\ \A i \in 1..Len(simple.validation.errors) :
              \E j \in 1..Len(result.errors) :
                  result.errors[j].type = simple.validation.errors[i].type
        /\ result.isValid => simple.validation.isValid

----------------------------------------------------------------------------
(* Concurrent calls on the OCRService singleton *)

NextOcr ==
    \/ Initialize \/ ExtractText \/ WorkerCreated \/ Configured \/ InitializeFails
    \/ Initialized \/ Preprocessed \/ Recognized \/ Cleanup \/ Terminated

SpecOcr == InitIn({ 0 }) /\ [][NextOcr]_vars

\* no createWorker or setParameters call has failed
NoFailure ==
    /\ \A w \in 1..Len(workers) : workers[w] # "failed"
    /\ \A call \in Calls : calls[call].at # "failed"

\* the workers that exist and were not terminated
LiveWorkers == { w \in 1..Len(workers) : workers[w] = "ready" }

\* the workers the calls have called recognize on
UsedWorkers ==
    { calls[call].worker : call \in { c \in Calls : calls[c].at \in { "recognizing", "done" }
                                                    /\ calls[c].op = "extractText"
                                                    /\ calls[c].worker # NoWorker } }

\* C30: when no initialisation step fails, Tesseract.createWorker is invoked
\* at most once whatever the interleaving of initialize() and extractText()
\* calls, every call uses the same worker, no created worker is replaced in
\* the instance while it is still running, and once isInitialized is true
\* the one worker is all there is (a later call creates none).
C30_SingleShot ==
    NoFailure =>
        /\ Len(workers) <= 1
        /\ Cardinality(UsedWorkers) <= 1
        /\ LiveWorkers \subseteq { ocr.tesseractWorker }
        /\ ocr.isInitialized => Len(workers) = 1
====
